---- MODULE Spec2Model ----
(***************************************************************************)
(* The scheduling-and-checking engine of the URL monitor:                  *)
(*   app/main.py     scheduled_check, lifespan, check_url_now,             *)
(*                   check_all_urls_now, create_url, import_urls_csv,      *)
(*                   update_url, delete_url, delete_proxy, settings API    *)
(*   app/checker.py  check_url, check_monitored_url                        *)
(*   app/notifier.py get_notification_settings, send_notification          *)
(*   app/database.py async_session (expire_on_commit=False)                *)
(*                                                                         *)
(* Every coroutine runs on one asyncio event loop, so a step of the model  *)
(* is the code between two awaits.  Every run (a scheduler tick or an HTTP *)
(* request) owns one AsyncSession; the rows a session has loaded stay in   *)
(* its identity map with the values they had when loaded, and a flush      *)
(* writes only the columns whose new value differs from that loaded value. *)
(*                                                                         *)
(* Specifications over the same definitions:                               *)
(*   Spec          ticks and requests running concurrently                 *)
(*   NotifierSpec  check_url_now requests one after the other, over every  *)
(*                 trigger setting, with recipients and failing deliveries *)
(*   FetchSpec     one call of check_url over every way the GET can end    *)
(*   DeleteSpec    delete_url and check_url_now running concurrently       *)
(*   SettingsSpec  the settings API and checks, from an empty table        *)
(*   TickSpec      the scheduler alone, with fairness, and an SMTP server  *)
(*                 that may never answer                                   *)
(*   ProxySpec     one call of get_proxy_url_for_httpx                     *)
(*   IntakeSpec    create_url and import_urls_csv storing new URLs         *)
(*   ChannelSpec   dispatches with each channel configured or not          *)
(*   AdminSpec     ticks and manual checks while delete_proxy and          *)
(*                 update_url change what they loaded                      *)
(*   RoundSpec     the scheduler alone with every URL active, and a timer  *)
(*                 that keeps firing                                       *)
(***************************************************************************)
EXTENDS Integers, Sequences, FiniteSets, TLC

\* ------------------------------------------------------------- bounds
NumUrls == 2        \* MonitoredURL rows
MaxRunners == 2     \* coroutines alive at once (ticks and HTTP requests)
MaxChecks == 2      \* calls of check_monitored_url in one behaviour
MaxClock == 2       \* readings of datetime.utcnow(), in seconds
MaxCred == 2        \* characters of a proxy user name or password

\* ---------------------------------------------------------- constants
NULL == -1          \* None in an integer or datetime column
NONE == "None"      \* None in a text column, or no exception
max_instances == 1  \* add_job(...) passes none: APScheduler's default
ErrLimit == 100     \* str(e)[:100]

Urls == 1..NumUrls
Runners == 1..MaxRunners

VARIABLES
    clock,                  \* datetime.utcnow()
    monitored_urls,         \* table monitored_urls: id -> row
    url_checks,             \* table url_checks, in insertion order
    notification_settings,  \* table notification_settings (a sequence of rows)
    notification_recipients,\* table notification_recipients, in id order
    notifications,          \* the calls of send_notification, in order
    kind,                   \* runner -> "idle" | "sched" | "one" | "all"
    pc,                     \* runner -> where its coroutine is suspended
    tnow,                   \* runner -> `now` of scheduled_check
    urls,                   \* runner -> the list `urls` it loaded
    idx,                    \* runner -> position of its for loop in `urls`
    session,                \* runner -> the rows in its session's identity map
    cur,                    \* runner -> locals of its check_monitored_url call
    seen,                   \* history: runner -> the rows as its query loaded them
    progress,               \* history: runner -> how far the check of each URL of its run got
    hist,                   \* history: check id -> full outcome and progress
    updates,                \* history: url -> UPDATE statements checks applied to its row
    started,                \* history: calls of check_monitored_url so far
    fetched,                \* one call of check_url on its own: input and return
    deleted,                \* the ids of the MonitoredURL rows that were deleted
    built,                  \* one call of get_proxy_url_for_httpx: proxy and return
    proxies,                \* the ids of the rows of table proxies
    held                    \* runner -> the Proxy objects in its session's identity map

vars == <<clock, monitored_urls, url_checks, notification_settings,
          notification_recipients, notifications, kind, pc, tnow, urls, idx,
          session, cur, seen, progress, hist, updates, started, fetched,
          deleted, built, proxies, held>>

\* --------------------------------------------------------------- rows
\* models.py: the columns of MonitoredURL that the engine reads or writes.
NewUrlRow(interval) ==
    [last_check |-> NULL, last_status_code |-> NULL, last_response_time |-> NULL,
     last_error |-> NONE, last_final_url |-> NONE, last_redirect_count |-> 0,
     last_redirect_code |-> NULL, check_interval |-> interval, is_active |-> TRUE,
     proxy_id |-> NULL]

\* The SMTP server an administrator has entered on the settings page.
SmtpHost == "smtp.example.org"

\* The sender address and the bot token entered on the same page.
SmtpFrom == "monitor@example.org"

BotToken == "bot-token"

\* models.py: NotificationSettings, the four triggers, of an installation
\* whose SMTP server is configured.
SettingsRow(e, r, s, a) ==
    [notify_on_error |-> e, notify_on_recovery |-> r,
     notify_on_status_change |-> s, notify_on_every_check |-> a,
     smtp_host |-> SmtpHost, smtp_from_email |-> SmtpFrom,
     telegram_bot_token |-> BotToken]

\* The table as the admin API can leave it: empty (main.py 605-609 has not run),
\* the default triggers (models.py 107-110), or every-check alone switched on.
InitialSettings ==
    { <<>>,
      <<SettingsRow(TRUE, TRUE, FALSE, FALSE)>>,
      <<SettingsRow(FALSE, FALSE, FALSE, TRUE)>> }

\* The locals of check_monitored_url while no call is running.
NoCur == [url |-> 0, previous_status |-> NULL, previous_error |-> NONE,
          result |-> <<>>, at |-> NULL, check |-> 0,
          proxy_id |-> NULL, proxy |-> NULL]

Min(a, b) == IF a <= b THEN a ELSE b

\* History bookkeeping: the check of URL u of a run has reached `stage`.
Reached(done, u, stage) ==
    [v \in DOMAIN done \cup {u} |-> IF v = u THEN stage ELSE done[v]]

\* ---------------------------------------------------------- check_url
\* What the network does to one GET: `exc` is the class of the exception raised
\* inside `client.get` (NONE: a response came back), `exit_exc` the class of one
\* raised after the response was stored, while the `async with` block closes the
\* client.
Response(status, history, final) ==
    [exc |-> NONE, exit_exc |-> NONE, status |-> status, history |-> history,
     url |-> final, detail |-> "", elapsed |-> 5]

Failure(cls, detail) ==
    [exc |-> cls, exit_exc |-> NONE, status |-> NULL, history |-> <<>>,
     url |-> NONE, detail |-> detail, elapsed |-> 7]

CloseFailure(status, cls, detail) ==
    [exc |-> NONE, exit_exc |-> cls, status |-> status, history |-> <<>>,
     url |-> NONE, detail |-> detail, elapsed |-> 6]

Fetches ==
    { Response(200, <<>>, NONE),
      Response(200, <<302>>, "https://final"),
      Failure("TimeoutException", "timed out"),
      CloseFailure(200, "Exception", "close failed") }

\* Mutant of Truncate: the whole exception text is kept.
TruncateNothing(s) == s

\* checker.py 71, 75, 79: str(e)[:100]
Truncate(s) == SubSeq(s, 1, Min(Len(s), ErrLimit))

\* The classes an except clause of check_url can meet, each with the classes
\* it derives from (httpx's exception tree; CancelledError is a BaseException).
Bases(cls) ==
    CASE cls = "TimeoutException" ->
            {"TimeoutException", "TransportError", "Exception"}
      [] cls = "ConnectTimeout" ->
            {"ConnectTimeout", "TimeoutException", "TransportError", "Exception"}
      [] cls = "ReadTimeout" ->
            {"ReadTimeout", "TimeoutException", "TransportError", "Exception"}
      [] cls = "ProxyError" ->
            {"ProxyError", "TransportError", "Exception"}
      [] cls = "ConnectError" ->
            {"ConnectError", "NetworkError", "TransportError", "Exception"}
      [] cls = "ReadError" ->
            {"ReadError", "NetworkError", "TransportError", "Exception"}
      [] cls = "InvalidURL" -> {"InvalidURL", "Exception"}
      [] cls = "CancelledError" -> {"CancelledError", "BaseException"}
      [] OTHER -> {cls, "Exception"}

\* isinstance(e, base)
IsInstance(cls, base) == base \in Bases(cls)

\* Mutant of ExceptClauses: the except clauses are tried in another order.
ExceptClausesConnectFirst ==
    << [catches |-> "ConnectError", prefix |-> "Connection error: ", detail |-> TRUE],
       [catches |-> "ProxyError", prefix |-> "Proxy error: ", detail |-> TRUE],
       [catches |-> "Exception", prefix |-> "Error: ", detail |-> TRUE],
       [catches |-> "TimeoutException", prefix |-> "Timeout", detail |-> FALSE] >>

\* Mutant of ExceptClauses: the catch-all clause is missing.
ExceptClausesNoCatchAll ==
    << [catches |-> "TimeoutException", prefix |-> "Timeout", detail |-> FALSE],
       [catches |-> "ProxyError", prefix |-> "Proxy error: ", detail |-> TRUE],
       [catches |-> "ConnectError", prefix |-> "Connection error: ", detail |-> TRUE] >>

\* checker.py 66-81: the except clauses in the order they are written.
ExceptClauses ==
    << [catches |-> "TimeoutException", prefix |-> "Timeout", detail |-> FALSE],
       [catches |-> "ProxyError", prefix |-> "Proxy error: ", detail |-> TRUE],
       [catches |-> "ConnectError", prefix |-> "Connection error: ", detail |-> TRUE],
       [catches |-> "Exception", prefix |-> "Error: ", detail |-> TRUE] >>

\* The clauses that match an exception of class cls, by position.
Matching(cls) ==
    {i \in DOMAIN ExceptClauses : IsInstance(cls, ExceptClauses[i].catches)}

\* The clause Python runs: the first that matches (0: none, the exception
\* leaves check_url).
Handler(cls) ==
    IF Matching(cls) = {} THEN 0
    ELSE CHOOSE i \in Matching(cls) : \A j \in Matching(cls) : i <= j

\* checker.py 66-81: the message the handling clause stores in result["error"].
ClassifyError(cls, detail) ==
    LET h == ExceptClauses[Handler(cls)]
    IN  IF h.detail THEN h.prefix \o Truncate(detail) ELSE h.prefix

\* Mutant of FirstHopCode: the status of the hop followed last.
LastHopCode(history) == history[Len(history)]

\* checker.py 65: response.history[0].status_code, the status of the response
\* that started the chain (history holds one status per hop, oldest first).
FirstHopCode(history) == history[1]

\* checker.py 33-83
check_url(f) ==
    LET init == [status_code |-> NULL, response_time |-> NULL, error |-> NONE,
                 final_url |-> NONE, redirect_count |-> 0, redirect_code |-> NULL]
        got == IF f.exc = NONE
               THEN [init EXCEPT
                       !.status_code = f.status,
                       !.response_time = f.elapsed,
                       !.redirect_count = Len(f.history),
                       !.final_url = IF f.history # <<>> THEN f.url ELSE NONE,
                       !.redirect_code = IF f.history # <<>> THEN FirstHopCode(f.history)
                                       ELSE NULL]
               ELSE init
        raised == IF f.exc # NONE THEN f.exc ELSE f.exit_exc
    IN  IF raised = NONE THEN got
        ELSE [got EXCEPT !.error = ClassifyError(raised, f.detail),
                         !.response_time = f.elapsed]

\* checker.py 51-81: the exception that no except clause handles and that
\* leaves check_url instead of a result (NONE: check_url returns).
Propagated(f) ==
    LET raised == IF f.exc # NONE THEN f.exc ELSE f.exit_exc
    IN  IF raised # NONE /\ Handler(raised) = 0 THEN raised ELSE NONE

\* ------------------------------------------------- notification rules
\* Mutant of IsError: only an error message counts, a status >= 400 does not.
IsErrorMessageOnly(error, status) == error # NONE /\ error # ""

\* Python truthiness of `error or (status and status >= 400)`, checker.py 121-122.
IsError(error, status) ==
    (error # NONE /\ error # "") \/ (status # NULL /\ status # 0 /\ status >= 400)

\* notifier.py 19-22: select(NotificationSettings).limit(1), scalar_one_or_none.
get_notification_settings(table) == IF table = <<>> THEN <<>> ELSE <<table[1]>>

\* Mutant of DecideRule: the new-error branch is tested before every-check.
DecideRuleErrorFirst(settings, current_is_error, previous_was_error, previous_status, status) ==
    IF settings = <<>> THEN "none"
    ELSE IF current_is_error /\ ~previous_was_error THEN "error"
    ELSE IF settings[1].notify_on_every_check THEN "every_check"
    ELSE IF ~current_is_error /\ previous_was_error /\ previous_status # NULL
         THEN "recovery"
    ELSE IF /\ settings[1].notify_on_status_change
            /\ previous_status # status
            /\ previous_status # NULL
         THEN "status_change"
    ELSE "none"

\* Mutant of DecideRule: the error branch does not look at the previous state.
DecideRuleEveryError(settings, current_is_error, previous_was_error, previous_status, status) ==
    IF settings = <<>> THEN "none"
    ELSE IF settings[1].notify_on_every_check THEN "every_check"
    ELSE IF current_is_error THEN "error"
    ELSE IF ~current_is_error /\ previous_was_error /\ previous_status # NULL
         THEN "recovery"
    ELSE IF /\ settings[1].notify_on_status_change
            /\ previous_status # status
            /\ previous_status # NULL
         THEN "status_change"
    ELSE "none"

\* checker.py 126-156: the if/elif chain; the rule whose branch is taken.
DecideRule(settings, current_is_error, previous_was_error, previous_status, status) ==
    IF settings = <<>> THEN "none"
    ELSE IF settings[1].notify_on_every_check THEN "every_check"
    ELSE IF current_is_error /\ ~previous_was_error THEN "error"
    ELSE IF ~current_is_error /\ previous_was_error /\ previous_status # NULL
         THEN "recovery"
    ELSE IF /\ settings[1].notify_on_status_change
            /\ previous_status # status
            /\ previous_status # NULL
         THEN "status_change"
    ELSE "none"

\* Mutant of CallArgs: the every-check branch forgets force=True.
CallArgsUnforced(rule) ==
    [is_recovery |-> rule = "recovery",
     force |-> FALSE,
     is_regular_check |-> rule = "every_check"]

\* The keyword arguments each branch passes to send_notification.
CallArgs(rule) ==
    [is_recovery |-> rule = "recovery",
     force |-> rule = "every_check",
     is_regular_check |-> rule = "every_check"]

\* Mutant of send_notification: the two triggers are not consulted.
send_notification_ungated(table, is_recovery, force) == IF get_notification_settings(table) = <<>> THEN "not_configured" ELSE "sent"

\* notifier.py 202-214: what send_notification does with the call.
send_notification(table, is_recovery, force) ==
    LET settings == get_notification_settings(table)
    IN  IF settings = <<>> THEN "not_configured"
        ELSE IF ~force /\ is_recovery /\ ~settings[1].notify_on_recovery THEN "skipped"
        ELSE IF ~force /\ ~is_recovery /\ ~settings[1].notify_on_error THEN "skipped"
        ELSE "sent"

\* models.py 115-124: NotificationRecipient.
RecipientRow(id, channel, address, active) ==
    [id |-> id, channel |-> channel, address |-> address, is_active |-> active]

\* notifier.py 25-31
get_active_recipients(table, channel) ==
    SelectSeq(table, LAMBDA r : r.is_active /\ r.channel = channel)

\* Mutant of Deliver: the loop stops at the first delivery that fails.
DeliverUntilFailure(recipients, failed) ==
    LET bad == {i \in DOMAIN recipients : recipients[i].id \in failed}
        last == IF bad = {} THEN Len(recipients)
                ELSE CHOOSE i \in bad : \A j \in bad : i <= j
    IN  [i \in 1..last |->
            [address |-> recipients[i].address,
             success |-> recipients[i].id \notin failed]]

\* notifier.py 220-225 and 229-235: one delivery per recipient of the list, in
\* order; send_email and send_telegram turn every transport failure into a
\* result (notifier.py 87-89, 137-142).  `failed` holds the ids of the
\* recipients whose transport fails.
Deliver(recipients, failed) ==
    [i \in 1..Len(recipients) |->
        [address |-> recipients[i].address,
         success |-> recipients[i].id \notin failed]]

\* notifier.py 216-240: the breakdown send_notification returns.
Breakdown(table, failed) ==
    [email |-> Deliver(get_active_recipients(table, "email"), failed),
     telegram |-> Deliver(get_active_recipients(table, "telegram"), failed)]

NoBreakdown == [email |-> <<>>, telegram |-> <<>>]

\* notifier.py 98-99: the error text of a dispatch without a bot token (the
\* source gives it in Russian; its English rendering stands for it here).
NoTokenError == "Telegram bot token not configured"

\* notifier.py 139-142: the error text of a request that failed.
TransportError == "request failed"

\* notifier.py 34-89: send_email. Without an SMTP host or a sender address it
\* returns False before it opens a connection (41-43); a failure of the
\* transport is caught and gives False as well (87-89).
send_email(settings, delivered) ==
    IF settings[1].smtp_host = NONE \/ settings[1].smtp_from_email = NONE
    THEN [attempted |-> FALSE, success |-> FALSE]
    ELSE [attempted |-> TRUE, success |-> delivered]

\* notifier.py 92-142: send_telegram. Without a bot token it returns a
\* failure with an error text before it posts anything (98-99); a failure of
\* the request is caught and reported the same way (135-142).
send_telegram(settings, delivered) ==
    IF settings[1].telegram_bot_token = NONE
    THEN [attempted |-> FALSE, success |-> FALSE, error |-> NoTokenError]
    ELSE IF delivered
         THEN [attempted |-> TRUE, success |-> TRUE, error |-> NONE]
         ELSE [attempted |-> TRUE, success |-> FALSE, error |-> TransportError]

\* The sender a dispatch calls for a recipient (notifier.py 219-235).
Send(settings, r, delivered) ==
    IF r.channel = "email"
    THEN send_email(settings, delivered)
    ELSE send_telegram(settings, delivered)

\* notifier.py 41-43, 98-99: the ids of the active recipients whose sender
\* returns a failure whatever the transport does.
Unconfigured(settings, table) ==
    IF settings = <<>> THEN {}
    ELSE {table[i].id : i \in {j \in DOMAIN table :
              table[j].is_active /\ ~Send(settings, table[j], TRUE).success}}

\* Mutant of Contacted: the dispatch gives up at the first channel that is not
\* configured.
ContactedUnlessMisconfigured(settings, table) == IF Unconfigured(settings, table) # {} THEN {} ELSE {table[i].id : i \in {j \in DOMAIN table : table[j].is_active}}

\* notifier.py 219-235: both loops run to their end; the ids of the active
\* recipients for whom a connection or request was actually made.
Contacted(settings, table) ==
    IF settings = <<>> THEN {}
    ELSE {table[i].id : i \in {j \in DOMAIN table :
              table[j].is_active /\ Send(settings, table[j], TRUE).attempted}}

\* notifier.py 230-235: the error text of each telegram entry of a dispatch.
TelegramErrors(settings, table, failed) ==
    LET rows == get_active_recipients(table, "telegram")
    IN  [k \in DOMAIN rows |->
            send_telegram(settings, rows[k].id \notin failed).error]

\* The ids of the recipients a dispatch would deliver to.
ActiveIds(table) == {table[i].id : i \in {j \in DOMAIN table : table[j].is_active}}

\* ------------------------------------------------------------ session
\* Mutant of Assigned: the redirect columns are assigned only when the fetch
\* followed a redirect.
AssignedRedirectsIfAny(row, result, at) ==
    [row EXCEPT !.last_check = at,
                !.last_status_code = result.status_code,
                !.last_response_time = result.response_time,
                !.last_error = result.error,
                !.last_final_url =
                    IF result.redirect_count > 0 THEN result.final_url ELSE @,
                !.last_redirect_count =
                    IF result.redirect_count > 0 THEN result.redirect_count ELSE @,
                !.last_redirect_code =
                    IF result.redirect_count > 0 THEN result.redirect_code ELSE @]

\* checker.py 109-115: the values assigned to the loaded MonitoredURL object.
Assigned(row, result, at) ==
    [row EXCEPT !.last_check = at,
                !.last_status_code = result.status_code,
                !.last_response_time = result.response_time,
                !.last_error = result.error,
                !.last_final_url = result.final_url,
                !.last_redirect_count = result.redirect_count,
                !.last_redirect_code = result.redirect_code]

\* database.py 10 and checker.py 117: the UPDATE a flush emits for one object.
\* The unit of work compares each assigned attribute with the value the session
\* loaded and sets only the columns that differ; last_check is a fresh
\* microsecond timestamp and is always among them.
Flushed(stored, loaded, assigned) ==
    [c \in DOMAIN stored |->
        IF c = "last_check" \/ assigned[c] # loaded[c] THEN assigned[c] ELSE stored[c]]

\* checker.py 99-105: the URLCheck row, its id generated by the INSERT.
NewCheck(id, url, result, at) ==
    [id |-> id, monitored_url_id |-> url, status_code |-> result.status_code,
     response_time |-> result.response_time, error_message |-> result.error,
     checked_at |-> at]

\* Mutant of Insert: only a check that got a response is recorded.
InsertOnResponse(table, row) ==
    IF row.status_code = NULL THEN table ELSE Append(table, row)

\* checker.py 106, 117: db.add(url_check) and the INSERT of the flush.
Insert(table, row) == Append(table, row)

\* main.py 44-46 and 548-553: the active URLs, here in id order.
RECURSIVE ActiveFrom(_, _)
ActiveFrom(table, u) ==
    IF u > NumUrls THEN <<>>
    ELSE (IF u \notin deleted /\ table[u].is_active THEN <<u>> ELSE <<>>)
            \o ActiveFrom(table, u + 1)

ActiveUrls(table) == ActiveFrom(table, 1)

\* Mutant of should_check: the boundary is exclusive.
should_check_strict(now, url) ==
    IF url.last_check = NULL THEN TRUE
    ELSE (now - url.last_check) > url.check_interval

\* main.py 49-53
should_check(now, url) ==
    IF url.last_check = NULL THEN TRUE
    ELSE (now - url.last_check) >= url.check_interval

\* Mutant of CanStart: the trigger starts a run whatever is still running.
CanStartAlways == TRUE

\* main.py 66: the interval trigger starts a run only below max_instances.
CanStart == Cardinality({p \in Runners : kind[p] = "sched"}) < max_instances

\* A new coroutine takes the lowest free slot.
FreeSlot(p) == kind[p] = "idle" /\ \A q \in Runners : q < p => kind[q] # "idle"

CheckInterval(u) == u

\* No coroutine is running and nothing was checked yet.
EngineIdle ==
    /\ clock = 0
    /\ monitored_urls = [u \in Urls |-> NewUrlRow(CheckInterval(u))]
    /\ url_checks = <<>>
    /\ notifications = <<>>
    /\ kind = [p \in Runners |-> "idle"]
    /\ pc = [p \in Runners |-> "idle"]
    /\ tnow = [p \in Runners |-> NULL]
    /\ urls = [p \in Runners |-> <<>>]
    /\ idx = [p \in Runners |-> 0]
    /\ session = [p \in Runners |-> <<>>]
    /\ cur = [p \in Runners |-> NoCur]
    /\ seen = [p \in Runners |-> <<>>]
    /\ progress = [p \in Runners |-> <<>>]
    /\ hist = <<>>
    /\ updates = [u \in Urls |-> 0]
    /\ started = 0
    /\ deleted = {}

Init ==
    /\ EngineIdle
    /\ built = <<>>
    /\ proxies = {}
    /\ held = [p \in Runners |-> {}]
    /\ notification_settings \in InitialSettings
    /\ notification_recipients = <<>>
    /\ fetched = <<>>

\* ------------------------------------------------------------ actions
\* time.time() / datetime.utcnow() move on.
AdvanceClock ==
    /\ clock < MaxClock
    /\ clock' = clock + 1
    /\ UNCHANGED <<notification_recipients, fetched, deleted, built, proxies, held,
                   monitored_urls, url_checks, notification_settings, notifications,
                   kind, pc, tnow, urls, idx, session, cur, seen, progress, hist,
                   updates, started>>

\* checker.py 88-90: the proxy the check fetches through, NULL for none.
\* db.get returns the object the session already holds, else the stored row,
\* else None; a URL without a reference is fetched directly.
ProxyLookup(p, row) ==
    IF row.proxy_id = NULL THEN NULL
    ELSE IF row.proxy_id \in held[p] \cup proxies THEN row.proxy_id
    ELSE NULL

\* checker.py 86-96: check_monitored_url up to the await of the fetch.  The
\* previous state is read from the object the caller's session loaded.
BeginCheck(p, u, row) ==
    /\ started < MaxChecks
    /\ started' = started + 1
    /\ cur' = [cur EXCEPT ![p] = [NoCur EXCEPT !.url = u,
                                    !.previous_status = row.last_status_code,
                                    !.previous_error = row.last_error,
                                    !.proxy_id = row.proxy_id,
                                    !.proxy = ProxyLookup(p, row)]]
    /\ held' = [held EXCEPT ![p] = @ \cup ({ProxyLookup(p, row)} \ {NULL})]
    /\ progress' = [progress EXCEPT ![p] = Reached(@, u, "invoked")]
    /\ pc' = [pc EXCEPT ![p] = "fetch"]

\* main.py 66: the interval trigger fires below max_instances and a run of
\* scheduled_check starts; main.py 42-46: it opens its session, reads `now`
\* and loads the active URLs.
TimerFire(p) ==
    /\ FreeSlot(p)
    /\ CanStart
    /\ started < MaxChecks
    /\ kind' = [kind EXCEPT ![p] = "sched"]
    /\ tnow' = [tnow EXCEPT ![p] = clock]
    /\ urls' = [urls EXCEPT ![p] = ActiveUrls(monitored_urls)]
    /\ session' = [session EXCEPT ![p] = monitored_urls]
    /\ seen' = [seen EXCEPT ![p] = monitored_urls]
    /\ idx' = [idx EXCEPT ![p] = 1]
    /\ pc' = [pc EXCEPT ![p] = "loop"]
    /\ UNCHANGED <<notification_recipients, fetched, deleted, built, proxies, held,
                   clock, monitored_urls, url_checks, notification_settings,
                   notifications, cur, progress, hist, updates, started>>

\* main.py 66: the trigger fires while max_instances runs are alive: skipped.
TimerSkip ==
    /\ ~CanStart
    /\ UNCHANGED <<notification_recipients, fetched, deleted, built, proxies, held,
                   clock, monitored_urls, url_checks, notification_settings,
                   notifications, kind, pc, tnow, urls, idx, session, cur, seen,
                   progress, hist, updates, started>>

\* main.py 48-57: one iteration whose URL is due.
TickDispatch(p) ==
    /\ kind[p] = "sched" /\ pc[p] = "loop" /\ idx[p] <= Len(urls[p])
    /\ should_check(tnow[p], session[p][urls[p][idx[p]]])
    /\ BeginCheck(p, urls[p][idx[p]], session[p][urls[p][idx[p]]])
    /\ UNCHANGED <<notification_recipients, fetched, deleted, built, proxies,
                   clock, monitored_urls, url_checks, notification_settings,
                   notifications, kind, tnow, urls, idx, session, seen, hist,
                   updates>>

\* main.py 48-55: one iteration whose URL is not due.
TickNotDue(p) ==
    /\ kind[p] = "sched" /\ pc[p] = "loop" /\ idx[p] <= Len(urls[p])
    /\ ~should_check(tnow[p], session[p][urls[p][idx[p]]])
    /\ idx' = [idx EXCEPT ![p] = @ + 1]
    /\ UNCHANGED <<notification_recipients, fetched, deleted, built, proxies, held,
                   clock, monitored_urls, url_checks, notification_settings,
                   notifications, kind, pc, tnow, urls, session, cur, seen, progress,
                   hist, updates, started>>

\* main.py 497-513: check_url_now loads the URL (404 when it is gone) and
\* calls check_monitored_url.
CheckUrlNow(p, u) ==
    /\ FreeSlot(p)
    /\ u \notin deleted
    /\ kind' = [kind EXCEPT ![p] = "one"]
    /\ urls' = [urls EXCEPT ![p] = <<u>>]
    /\ idx' = [idx EXCEPT ![p] = 1]
    /\ session' = [session EXCEPT ![p] = [v \in {u} |-> monitored_urls[v]]]
    /\ seen' = [seen EXCEPT ![p] = [v \in {u} |-> monitored_urls[v]]]
    /\ BeginCheck(p, u, monitored_urls[u])
    /\ UNCHANGED <<notification_recipients, fetched, deleted, built, proxies,
                   clock, monitored_urls, url_checks, notification_settings,
                   notifications, tnow, hist, updates>>

\* main.py 550: selectinload(MonitoredURL.proxy) loads, with the URLs of the
\* list, the Proxy rows they refer to that exist.
Eager(list) ==
    {monitored_urls[list[i]].proxy_id : i \in DOMAIN list} \cap proxies

\* main.py 542-553: check_all_urls_now loads the active URLs and their
\* proxies.
CheckAllNow(p) ==
    /\ FreeSlot(p)
    /\ started < MaxChecks
    /\ kind' = [kind EXCEPT ![p] = "all"]
    /\ urls' = [urls EXCEPT ![p] = ActiveUrls(monitored_urls)]
    /\ idx' = [idx EXCEPT ![p] = 1]
    /\ session' = [session EXCEPT ![p] = monitored_urls]
    /\ seen' = [seen EXCEPT ![p] = monitored_urls]
    /\ pc' = [pc EXCEPT ![p] = "loop"]
    /\ held' = [held EXCEPT ![p] = Eager(ActiveUrls(monitored_urls))]
    /\ UNCHANGED <<notification_recipients, fetched, deleted, built, proxies,
                   clock, monitored_urls, url_checks, notification_settings,
                   notifications, tnow, cur, progress, hist, updates, started>>

\* main.py 556-558: one iteration of its loop.
AllDispatch(p) ==
    /\ kind[p] = "all" /\ pc[p] = "loop" /\ idx[p] <= Len(urls[p])
    /\ BeginCheck(p, urls[p][idx[p]], session[p][urls[p][idx[p]]])
    /\ UNCHANGED <<notification_recipients, fetched, deleted, built, proxies,
                   clock, monitored_urls, url_checks, notification_settings,
                   notifications, kind, tnow, urls, idx, session, seen, hist,
                   updates>>

\* main.py 48 and 556: the for loop is exhausted and the coroutine returns.
LoopEnd(p) ==
    /\ kind[p] \in {"sched", "all"} /\ pc[p] = "loop" /\ idx[p] > Len(urls[p])
    /\ pc' = [pc EXCEPT ![p] = "done"]
    /\ UNCHANGED <<notification_recipients, fetched, deleted, built, proxies, held,
                   clock, monitored_urls, url_checks, notification_settings,
                   notifications, kind, tnow, urls, idx, session, cur, seen, progress,
                   hist, updates, started>>

\* Mutant of RowExists: the UPDATE is taken to succeed whatever it matches.
RowExistsAlways(u) == TRUE

\* checker.py 117: the flush issues UPDATE monitored_urls ... WHERE id = :id
\* for the loaded object; it succeeds only when the row is still there.
RowExists(u) == u \notin deleted

\* checker.py 96-118: the fetch returns `result`; the URLCheck is added to the
\* session, the loaded object is assigned, and the flush and COMMIT succeed.
Commit(p, f) ==
    LET u == cur[p].url
        result == check_url(f)
        assigned == Assigned(session[p][u], result, clock)
        id == Len(url_checks) + 1
    IN  /\ pc[p] = "fetch"
        /\ RowExists(u)
        /\ url_checks' = Insert(url_checks, NewCheck(id, u, result, clock))
        /\ monitored_urls' = [monitored_urls EXCEPT
                                ![u] = Flushed(@, session[p][u], assigned)]
        /\ session' = [session EXCEPT ![p][u] = assigned]
        /\ cur' = [cur EXCEPT ![p].result = result, ![p].at = clock, ![p].check = id]
        /\ hist' = Append(hist, [url |-> u, result |-> result, at |-> clock,
                                 phase |-> "committed", settings |-> <<>>,
                                 read |-> FALSE,
                                 previous_status |-> cur[p].previous_status,
                                 previous_error |-> cur[p].previous_error])
        /\ updates' = [updates EXCEPT ![u] = @ + 1]
        /\ progress' = [progress EXCEPT ![p] = Reached(@, u, "persisted")]
        /\ pc' = [pc EXCEPT ![p] = "settings"]
        /\ UNCHANGED <<notification_recipients, fetched, deleted, built, proxies, held,
                       clock, notification_settings, notifications, kind, tnow,
                       urls, idx, seen, started>>

\* What the caller does with an exception out of check_monitored_url.
\* check_url_now (main.py 513) lets it propagate.  The loops catch it and log
\* `url.url` (main.py 59-60, 560-561): when the session's transaction was rolled
\* back, `url` is expired and reading it raises out of the handler and the loop.
AfterRaise(p, expired) ==
    IF kind[p] = "one" \/ expired
    THEN /\ pc' = [pc EXCEPT ![p] = "failed"]
         /\ UNCHANGED idx
    ELSE /\ pc' = [pc EXCEPT ![p] = "loop"]
         /\ idx' = [idx EXCEPT ![p] = @ + 1]

\* checker.py 96-117: the fetch returns and the flush fails (the database is
\* locked, the disk is full, or the row was deleted meanwhile and the UPDATE
\* matches no row).
\* The session rolls the transaction back, drops the pending URLCheck and
\* expires every loaded object; db.commit() raises.
CommitFail(p) ==
    /\ pc[p] = "fetch"
    /\ session' = [session EXCEPT ![p] = <<>>]
    /\ cur' = [cur EXCEPT ![p] = NoCur]
    /\ progress' = [progress EXCEPT ![p] = Reached(@, cur[p].url, "commit_failed")]
    /\ AfterRaise(p, TRUE)
    /\ held' = [held EXCEPT ![p] = {}]
    /\ UNCHANGED <<notification_recipients, fetched, deleted, built, proxies,
                   clock, monitored_urls, url_checks, notification_settings,
                   notifications, kind, tnow, urls, seen, hist, updates, started>>

\* checker.py 124: the settings query raises (the refresh at 118 fails the same
\* way); neither is inside a try block, so check_monitored_url raises with the
\* check committed.
ReadFail(p) ==
    /\ pc[p] = "settings"
    /\ hist' = [hist EXCEPT ![cur[p].check].phase = "raised"]
    /\ cur' = [cur EXCEPT ![p] = NoCur]
    /\ AfterRaise(p, FALSE)
    /\ UNCHANGED <<notification_recipients, fetched, deleted, built, proxies, held,
                   clock, monitored_urls, url_checks, notification_settings,
                   notifications, kind, tnow, urls, session, seen, progress, updates,
                   started>>

\* checker.py 158 and main.py 58, 515, 559: check_monitored_url returns the
\* URLCheck to its caller.
Return(p) ==
    /\ cur' = [cur EXCEPT ![p] = NoCur]
    /\ IF kind[p] = "one"
       THEN /\ pc' = [pc EXCEPT ![p] = "done"]
            /\ UNCHANGED idx
       ELSE /\ pc' = [pc EXCEPT ![p] = "loop"]
            /\ idx' = [idx EXCEPT ![p] = @ + 1]

\* checker.py 121-151: the settings row read, the two error flags and the
\* branch of the if/elif chain that is taken.
Decision(p) ==
    LET r == cur[p].result
    IN  DecideRule(get_notification_settings(notification_settings),
                   IsError(r.error, r.status_code),
                   IsError(cur[p].previous_error, cur[p].previous_status),
                   cur[p].previous_status, r.status_code)

\* checker.py 118-158: refresh, the two error flags, the settings query, the
\* branch taken and its call of send_notification, which delivers to every
\* active recipient; then the check returns to its caller.
Notify(p, failed) ==
    LET settings == get_notification_settings(notification_settings)
        rule == Decision(p)
        args == CallArgs(rule)
        outcome == send_notification(notification_settings,
                                     args.is_recovery, args.force)
        unsent == failed \cup Unconfigured(settings, notification_recipients)
        call == [check |-> cur[p].check, url |-> cur[p].url, rule |-> rule,
                 is_recovery |-> args.is_recovery, force |-> args.force,
                 is_regular_check |-> args.is_regular_check,
                 outcome |-> outcome,
                 table |-> notification_recipients,
                 failed |-> IF outcome = "sent" THEN unsent ELSE {},
                 contacted |-> IF outcome = "sent"
                               THEN Contacted(settings, notification_recipients)
                               ELSE {},
                 errors |-> IF outcome = "sent"
                            THEN TelegramErrors(settings,
                                     notification_recipients, failed)
                            ELSE <<>>,
                 results |-> IF outcome = "sent"
                             THEN Breakdown(notification_recipients, unsent)
                             ELSE NoBreakdown]
    IN  /\ pc[p] = "settings"
        /\ notifications' = IF rule = "none" THEN notifications
                            ELSE Append(notifications, call)
        /\ hist' = [hist EXCEPT ![cur[p].check].phase = "returned",
                                ![cur[p].check].settings = settings,
                                ![cur[p].check].read = TRUE]
        /\ Return(p)
        /\ UNCHANGED <<notification_recipients, fetched, deleted, built, proxies, held,
                       clock, monitored_urls, url_checks, notification_settings,
                       kind, tnow, urls, session, seen, progress, updates, started>>

\* checker.py 129-156 and notifier.py 202, 219, 228: a query inside
\* send_notification raises; the try block around the call (checker.py
\* 132-133, 139-140, 147-148, 155-156) logs it and the check returns.
NotifyRaise(p) ==
    LET settings == get_notification_settings(notification_settings)
        rule == Decision(p)
        args == CallArgs(rule)
        call == [check |-> cur[p].check, url |-> cur[p].url, rule |-> rule,
                 is_recovery |-> args.is_recovery, force |-> args.force,
                 is_regular_check |-> args.is_regular_check,
                 outcome |-> "raised",
                 table |-> notification_recipients, failed |-> {},
                 contacted |-> {}, errors |-> <<>>,
                 results |-> NoBreakdown]
    IN  /\ pc[p] = "settings"
        /\ rule # "none"
        /\ notifications' = Append(notifications, call)
        /\ hist' = [hist EXCEPT ![cur[p].check].phase = "returned",
                                ![cur[p].check].settings = settings,
                                ![cur[p].check].read = TRUE]
        /\ Return(p)
        /\ UNCHANGED <<notification_recipients, fetched, deleted, built, proxies, held,
                       clock, monitored_urls, url_checks, notification_settings,
                       kind, tnow, urls, session, seen, progress, updates, started>>

\* main.py 42 and database.py 17-19: the coroutine ends and its session closes.
Close(p) ==
    /\ pc[p] \in {"done", "failed"}
    /\ kind' = [kind EXCEPT ![p] = "idle"]
    /\ pc' = [pc EXCEPT ![p] = "idle"]
    /\ tnow' = [tnow EXCEPT ![p] = NULL]
    /\ urls' = [urls EXCEPT ![p] = <<>>]
    /\ idx' = [idx EXCEPT ![p] = 0]
    /\ session' = [session EXCEPT ![p] = <<>>]
    /\ seen' = [seen EXCEPT ![p] = <<>>]
    /\ progress' = [progress EXCEPT ![p] = <<>>]
    /\ cur' = [cur EXCEPT ![p] = NoCur]
    /\ held' = [held EXCEPT ![p] = {}]
    /\ UNCHANGED <<notification_recipients, fetched, deleted, built, proxies,
                   clock, monitored_urls, url_checks, notification_settings,
                   notifications, hist, updates, started>>

Next ==
    \/ AdvanceClock
    \/ TimerSkip
    \/ \E p \in Runners : TimerFire(p)
    \/ \E p \in Runners : TickDispatch(p)
    \/ \E p \in Runners : TickNotDue(p)
    \/ \E p \in Runners, u \in Urls : CheckUrlNow(p, u)
    \/ \E p \in Runners : CheckAllNow(p)
    \/ \E p \in Runners : AllDispatch(p)
    \/ \E p \in Runners : LoopEnd(p)
    \/ \E p \in Runners, f \in Fetches : Commit(p, f)
    \/ \E p \in Runners : CommitFail(p)
    \/ \E p \in Runners : ReadFail(p)
    \/ \E p \in Runners :
          \E failed \in SUBSET ActiveIds(notification_recipients) : Notify(p, failed)
    \/ \E p \in Runners : Close(p)

Spec == Init /\ [][Next]_vars

\* ------------------------------------------ the notification decision
\* check_url_now requests served one after the other, over every setting of
\* the four triggers, a recipients table with active and inactive rows, every
\* band of outcome, and transports that fail for some recipients.
AllSettings ==
    {<<>>} \cup {<<SettingsRow(e, r, s, a)>> : e, r, s, a \in BOOLEAN}

RecipientTables ==
    { << RecipientRow(1, "email", "a@example.org", TRUE),
         RecipientRow(2, "email", "b@example.org", a2),
         RecipientRow(3, "telegram", "1001", ~a2) >> : a2 \in BOOLEAN }

NotifierFetches ==
    { Response(200, <<>>, NONE),
      Response(204, <<>>, NONE),
      Response(500, <<>>, NONE),
      Response(503, <<>>, NONE),
      Response(200, <<302>>, "https://final"),
      Failure("ConnectTimeout", "timed out"),
      Failure("ConnectError", "refused") }

NotifierInit ==
    /\ EngineIdle
    /\ built = <<>>
    /\ proxies = {}
    /\ held = [p \in Runners |-> {}]
    /\ notification_settings \in AllSettings
    /\ notification_recipients \in RecipientTables
    /\ fetched = <<>>

\* No other request or tick is being served.
Quiet == \A q \in Runners : kind[q] = "idle"

\* The URL whose checks are followed.
WatchedUrl == CHOOSE u \in Urls : \A v \in Urls : u <= v

NotifierNext ==
    \/ \E p \in Runners : Quiet /\ CheckUrlNow(p, WatchedUrl)
    \/ \E p \in Runners, f \in NotifierFetches : Commit(p, f)
    \/ \E p \in Runners : ReadFail(p)
    \/ \E p \in Runners :
          \E failed \in SUBSET ActiveIds(notification_recipients) : Notify(p, failed)
    \/ \E p \in Runners : NotifyRaise(p)
    \/ \E p \in Runners : Close(p)

NotifierSpec == NotifierInit /\ [][NotifierNext]_vars

\* ------------------------------------------------- check_url on its own
FetchClasses ==
    {"TimeoutException", "ConnectTimeout", "ReadTimeout", "ProxyError",
     "ConnectError", "ReadError", "InvalidURL", "ValueError", "CancelledError"}

Chunk == "connection refused by the peer; "

\* An exception text longer than ErrLimit characters.
LongDetail == Chunk \o Chunk \o Chunk \o Chunk

Details == {"", "refused", LongDetail}

\* Every way one GET can end: the exception raised inside client.get, the one
\* raised while the client closes after a response, or a clean response.
FetchInputs ==
    {Failure(c, d) : c \in FetchClasses, d \in Details}
    \cup {CloseFailure(st, c, d) : st \in {200, 500}, c \in FetchClasses, d \in Details}
    \cup {Response(st, <<>>, NONE) : st \in {200, 404, 500}}
    \cup {Response(200, <<301, 302>>, "https://final")}
    \cup {Response(200, <<>>, "https://target"),
          Response(200, <<302>>, "https://final"),
          Response(404, <<307, 302, 301>>, "https://gone")}

FetchInit ==
    /\ EngineIdle
    /\ built = <<>>
    /\ proxies = {}
    /\ held = [p \in Runners |-> {}]
    /\ notification_settings = <<>>
    /\ notification_recipients = <<>>
    /\ fetched \in {[input |-> f, state |-> "called", result |-> <<>>, raised |-> NONE] :
                       f \in FetchInputs}

\* checker.py 33-83: the call ends, by `return result` or by the exception
\* that no except clause handled.
CallCheckUrl ==
    /\ fetched # <<>>
    /\ fetched.state = "called"
    /\ fetched' =
          IF Propagated(fetched.input) # NONE
          THEN [fetched EXCEPT !.state = "raised",
                               !.raised = Propagated(fetched.input)]
          ELSE [fetched EXCEPT !.state = "returned",
                               !.result = check_url(fetched.input)]
    /\ UNCHANGED <<clock, monitored_urls, url_checks, notification_settings,
                   notification_recipients, notifications, kind, pc, tnow, urls,
                   idx, session, cur, seen, progress, hist, updates, started,
                   deleted, built, proxies, held>>

FetchNext == CallCheckUrl

FetchSpec == FetchInit /\ [][FetchNext]_vars

\* ----------------------------------------------------------- delete_url
\* Mutant of DeleteChecks: the DELETE has no WHERE clause.
DeleteChecksOfAll(table, u) == <<>>

\* main.py 488-490: DELETE FROM url_checks WHERE monitored_url_id = :url_id
DeleteChecks(table, u) ==
    SelectSeq(table, LAMBDA row : row.monitored_url_id # u)

\* main.py 477-485: delete_url loads the URL; a URL that is gone is a 404.
DeleteUrl(p, u) ==
    /\ FreeSlot(p)
    /\ u \notin deleted
    /\ kind' = [kind EXCEPT ![p] = "delete"]
    /\ pc' = [pc EXCEPT ![p] = "delete"]
    /\ urls' = [urls EXCEPT ![p] = <<u>>]
    /\ session' = [session EXCEPT ![p] = [v \in {u} |-> monitored_urls[v]]]
    /\ UNCHANGED <<notification_recipients, fetched, deleted, built, proxies, held,
                   clock, monitored_urls, url_checks, notification_settings,
                   notifications, tnow, idx, cur, seen, progress, hist, updates,
                   started>>

\* main.py 487-494: the DELETE of the URL's checks, db.delete(url) and the
\* COMMIT.  From its first statement the transaction holds the database's
\* write lock, so no other write is committed in between and the two deletes
\* take effect together.
DeleteCommit(p) ==
    LET u == urls[p][1]
    IN  /\ pc[p] = "delete"
        /\ url_checks' = DeleteChecks(url_checks, u)
        /\ deleted' = deleted \cup {u}
        /\ session' = [session EXCEPT ![p] = <<>>]
        /\ pc' = [pc EXCEPT ![p] = "done"]
        /\ UNCHANGED <<notification_recipients, fetched, built, proxies, held,
                       clock, monitored_urls, notification_settings, notifications,
                       kind, tnow, urls, idx, cur, seen, progress, hist, updates,
                       started>>

\* What the checks of this specification fetch.
DeleteFetches == {Response(200, <<>>, NONE), Failure("TimeoutException", "timed out")}

\* Checks, one at a time, and deletions requested while others are being
\* served.
DeleteInit ==
    /\ EngineIdle
    /\ built = <<>>
    /\ proxies = {}
    /\ held = [p \in Runners |-> {}]
    /\ notification_settings = <<>>
    /\ notification_recipients = <<>>
    /\ fetched = <<>>

\* No check_url_now request is being served.
NoCheckRunning == \A q \in Runners : kind[q] # "one"

DeleteNext ==
    \/ \E p \in Runners, u \in Urls : NoCheckRunning /\ CheckUrlNow(p, u)
    \/ \E p \in Runners, f \in DeleteFetches : Commit(p, f)
    \/ \E p \in Runners : CommitFail(p)
    \/ \E p \in Runners : Notify(p, {})
    \/ \E p \in Runners, u \in Urls : DeleteUrl(p, u)
    \/ \E p \in Runners : DeleteCommit(p)
    \/ \E p \in Runners : Close(p)

DeleteSpec == DeleteInit /\ [][DeleteNext]_vars

\* ------------------------------------------------- the settings API
\* models.py 96, 107-110: the row NotificationSettings() inserts.
DefaultSettings ==
    [SettingsRow(TRUE, TRUE, FALSE, FALSE) EXCEPT !.smtp_host = NONE,
                                                  !.smtp_from_email = NONE,
                                                  !.telegram_bot_token = NONE]

\* Bodies of PUT /api/notifications/settings: the fields the client set
\* (model_dump(exclude_unset=True)).
SettingsUpdates ==
    { <<>>,
      [notify_on_error |-> FALSE],
      [notify_on_every_check |-> TRUE, smtp_host |-> SmtpHost,
       smtp_from_email |-> SmtpFrom] }

\* main.py 630-632: setattr for every field of the body.
ApplyUpdate(row, data) ==
    [c \in DOMAIN row |-> IF c \in DOMAIN data THEN data[c] ELSE row[c]]

\* main.py 603-604, 623-624: select(NotificationSettings).limit(1); what the
\* session holds afterwards.
SelectSettings(table) ==
    [found |-> table # <<>>,
     row |-> IF table = <<>> THEN DefaultSettings ELSE table[1]]

\* main.py 597-612: GET with a row in the table returns it.
GetSettingsFound(p) ==
    /\ FreeSlot(p)
    /\ notification_settings # <<>>
    /\ kind' = [kind EXCEPT ![p] = "get"]
    /\ pc' = [pc EXCEPT ![p] = "done"]
    /\ UNCHANGED <<notification_recipients, fetched, deleted, built, proxies, held,
                   clock, monitored_urls, url_checks, notification_settings,
                   notifications, tnow, urls, idx, session, cur, seen, progress,
                   hist, updates, started>>

\* main.py 597-609: GET finds no row, makes NotificationSettings() and adds it
\* to its session; the request is suspended in db.commit().
GetSettingsMissing(p) ==
    /\ FreeSlot(p)
    /\ notification_settings = <<>>
    /\ kind' = [kind EXCEPT ![p] = "get"]
    /\ pc' = [pc EXCEPT ![p] = "create"]
    /\ session' = [session EXCEPT ![p] = SelectSettings(notification_settings)]
    /\ UNCHANGED <<notification_recipients, fetched, deleted, built, proxies, held,
                   clock, monitored_urls, url_checks, notification_settings,
                   notifications, tnow, urls, idx, cur, seen, progress, hist,
                   updates, started>>

\* main.py 610-612: the INSERT and COMMIT of the row GET made.
GetSettingsCreate(p) ==
    /\ kind[p] = "get" /\ pc[p] = "create"
    /\ notification_settings' = Append(notification_settings, session[p].row)
    /\ session' = [session EXCEPT ![p] = <<>>]
    /\ pc' = [pc EXCEPT ![p] = "done"]
    /\ UNCHANGED <<notification_recipients, fetched, deleted, built, proxies, held,
                   clock, monitored_urls, url_checks, notifications, kind, tnow,
                   urls, idx, cur, seen, progress, hist, updates, started>>

\* main.py 615-628: PUT runs its SELECT and, finding no row, makes
\* NotificationSettings() and adds it to its session.
PutSettings(p) ==
    /\ FreeSlot(p)
    /\ kind' = [kind EXCEPT ![p] = "put"]
    /\ pc' = [pc EXCEPT ![p] = "update"]
    /\ session' = [session EXCEPT ![p] = SelectSettings(notification_settings)]
    /\ UNCHANGED <<notification_recipients, fetched, deleted, built, proxies, held,
                   clock, monitored_urls, url_checks, notification_settings,
                   notifications, tnow, urls, idx, cur, seen, progress, hist,
                   updates, started>>

\* main.py 630-635: the fields of the body are assigned and the flush runs: an
\* INSERT of the new row, or an UPDATE of the loaded row's changed columns.
PutSettingsCommit(p, data) ==
    LET loaded == session[p].row
        assigned == ApplyUpdate(loaded, data)
    IN  /\ kind[p] = "put" /\ pc[p] = "update"
        /\ notification_settings' =
              IF session[p].found
              THEN [notification_settings EXCEPT
                       ![1] = [c \in DOMAIN @ |->
                                  IF assigned[c] # loaded[c] THEN assigned[c] ELSE @[c]]]
              ELSE Append(notification_settings, assigned)
        /\ session' = [session EXCEPT ![p] = <<>>]
        /\ pc' = [pc EXCEPT ![p] = "done"]
        /\ UNCHANGED <<notification_recipients, fetched, deleted, built, proxies, held,
                       clock, monitored_urls, url_checks, notifications, kind,
                       tnow, urls, idx, cur, seen, progress, hist, updates, started>>

\* What the checks of this specification fetch.
SettingsFetches ==
    { Response(200, <<>>, NONE),
      Response(500, <<>>, NONE),
      Failure("ConnectError", "refused") }

\* The settings requests of the admin page and checks of one URL, served at
\* the same time, starting from a database without a settings row.
SettingsInit ==
    /\ EngineIdle
    /\ built = <<>>
    /\ proxies = {}
    /\ held = [p \in Runners |-> {}]
    /\ notification_settings = <<>>
    /\ notification_recipients = <<RecipientRow(1, "email", "a@example.org", TRUE)>>
    /\ fetched = <<>>

SettingsNext ==
    \/ \E p \in Runners : GetSettingsFound(p)
    \/ \E p \in Runners : GetSettingsMissing(p)
    \/ \E p \in Runners : GetSettingsCreate(p)
    \/ \E p \in Runners : PutSettings(p)
    \/ \E p \in Runners, data \in SettingsUpdates : PutSettingsCommit(p, data)
    \/ \E p \in Runners : CheckUrlNow(p, WatchedUrl)
    \/ \E p \in Runners, f \in SettingsFetches : Commit(p, f)
    \/ \E p \in Runners :
          \E failed \in SUBSET ActiveIds(notification_recipients) : Notify(p, failed)
    \/ \E p \in Runners : Close(p)

SettingsSpec == SettingsInit /\ [][SettingsNext]_vars

\* ------------------------------------------------- ticks that must end
\* notifier.py 70-80: smtplib.SMTP(host, port) and the commands that follow
\* are blocking calls on a socket without a timeout, made on the event loop's
\* thread.  A thread is inside one of them, waiting for the server.
Blocked == \E q \in Runners : pc[q] = "smtp"

\* checker.py 129-156, notifier.py 207-225 and 70-80: the call is dispatched,
\* there is an SMTP host and an active e-mail recipient, and the SMTP server
\* accepts the connection and then stays silent: send_email does not return.
NotifyBlocks(p) ==
    LET settings == get_notification_settings(notification_settings)
        rule == Decision(p)
        args == CallArgs(rule)
    IN  /\ pc[p] = "settings"
        /\ rule # "none"
        /\ send_notification(notification_settings, args.is_recovery, args.force) = "sent"
        /\ send_email(settings, TRUE).attempted
        /\ get_active_recipients(notification_recipients, "email") # <<>>
        /\ pc' = [pc EXCEPT ![p] = "smtp"]
        /\ UNCHANGED <<notification_recipients, fetched, deleted, built, proxies, held,
                       clock, monitored_urls, url_checks, notification_settings,
                       notifications, kind, tnow, urls, idx, session, cur, seen,
                       progress, hist, updates, started>>

\* The scheduler alone, with one URL active, the default triggers, an SMTP
\* server configured and one e-mail recipient.
TickInit ==
    /\ clock = 0
    /\ monitored_urls = [u \in Urls |->
                            [NewUrlRow(CheckInterval(u)) EXCEPT !.is_active = (u = WatchedUrl)]]
    /\ url_checks = <<>>
    /\ notification_settings = <<SettingsRow(TRUE, TRUE, FALSE, FALSE)>>
    /\ notification_recipients = <<RecipientRow(1, "email", "a@example.org", TRUE)>>
    /\ notifications = <<>>
    /\ kind = [p \in Runners |-> "idle"]
    /\ pc = [p \in Runners |-> "idle"]
    /\ tnow = [p \in Runners |-> NULL]
    /\ urls = [p \in Runners |-> <<>>]
    /\ idx = [p \in Runners |-> 0]
    /\ session = [p \in Runners |-> <<>>]
    /\ cur = [p \in Runners |-> NoCur]
    /\ seen = [p \in Runners |-> <<>>]
    /\ progress = [p \in Runners |-> <<>>]
    /\ hist = <<>>
    /\ updates = [u \in Urls |-> 0]
    /\ started = 0
    /\ fetched = <<>>
    /\ deleted = {}
    /\ built = <<>>
    /\ proxies = {}
    /\ held = [p \in Runners |-> {}]

\* A step of the coroutine of tick p that the event loop will take: the loop
\* runs every coroutine that is ready, the GET ends within its timeouts
\* (checker.py 33, 52-54) and a delivery that answers, answers.
TickStep(p) ==
    \/ TickDispatch(p)
    \/ TickNotDue(p)
    \/ LoopEnd(p)
    \/ \E f \in Fetches : Commit(p, f)
    \/ \E failed \in SUBSET ActiveIds(notification_recipients) : Notify(p, failed)
    \/ Close(p)

\* While a thread is blocked inside smtplib the event loop runs nothing else.
TickNext ==
    \/ ~Blocked /\ AdvanceClock
    \/ ~Blocked /\ TimerSkip
    \/ \E p \in Runners : ~Blocked /\ TimerFire(p)
    \/ \E p \in Runners : ~Blocked /\ TickDispatch(p)
    \/ \E p \in Runners : ~Blocked /\ TickNotDue(p)
    \/ \E p \in Runners : ~Blocked /\ LoopEnd(p)
    \/ \E p \in Runners, f \in Fetches : ~Blocked /\ Commit(p, f)
    \/ \E p \in Runners :
          \E failed \in SUBSET ActiveIds(notification_recipients) :
              ~Blocked /\ Notify(p, failed)
    \/ \E p \in Runners : ~Blocked /\ Close(p)
    \/ \E p \in Runners : ~Blocked /\ NotifyBlocks(p)

TickSpec == TickInit /\ [][TickNext]_vars /\ \A p \in Runners : WF_vars(~Blocked /\ TickStep(p))

\* The scheduler alone, with one URL active or all of them, and a timer that
\* keeps firing: main.py 66 adds the interval job, and the trigger starts a
\* run whenever the event loop is free to run it and no earlier run is alive.
RoundInit ==
    /\ clock = 0
    /\ monitored_urls \in
          { [u \in Urls |-> [NewUrlRow(CheckInterval(u))
                                EXCEPT !.is_active = (all \/ u = WatchedUrl)]] :
            all \in BOOLEAN }
    /\ url_checks = <<>>
    /\ notification_settings = <<SettingsRow(TRUE, TRUE, FALSE, FALSE)>>
    /\ notification_recipients = <<RecipientRow(1, "email", "a@example.org", TRUE)>>
    /\ notifications = <<>>
    /\ kind = [p \in Runners |-> "idle"]
    /\ pc = [p \in Runners |-> "idle"]
    /\ tnow = [p \in Runners |-> NULL]
    /\ urls = [p \in Runners |-> <<>>]
    /\ idx = [p \in Runners |-> 0]
    /\ session = [p \in Runners |-> <<>>]
    /\ cur = [p \in Runners |-> NoCur]
    /\ seen = [p \in Runners |-> <<>>]
    /\ progress = [p \in Runners |-> <<>>]
    /\ hist = <<>>
    /\ updates = [u \in Urls |-> 0]
    /\ started = 0
    /\ fetched = <<>>
    /\ deleted = {}
    /\ built = <<>>
    /\ proxies = {}
    /\ held = [p \in Runners |-> {}]

\* main.py 66: the interval trigger fires.
TimerStep == \E p \in Runners : ~Blocked /\ TimerFire(p)

RoundSpec ==
    /\ RoundInit /\ [][TickNext]_vars
    /\ \A p \in Runners : WF_vars(~Blocked /\ TickStep(p))
    /\ WF_vars(TimerStep)

\* ------------------------------------------- get_proxy_url_for_httpx
\* Text is a sequence of one-character strings, so that quoting and parsing
\* work character by character.
Chars(s) ==
    CASE s = "http" -> <<"h", "t", "t", "p">>
      [] s = "https" -> <<"h", "t", "t", "p", "s">>
      [] s = "socks5" -> <<"s", "o", "c", "k", "s", "5">>
      [] s = "socks4" -> <<"s", "o", "c", "k", "s", "4">>
      [] s = "://" -> <<":", "/", "/">>
      [] s = ":" -> <<":">>
      [] s = "@" -> <<"@">>

\* The characters a credential is made of here: one that urllib.parse.quote
\* never encodes and the four that delimit the parts of a URL.
CredChars == {"a", "@", ":", "/", "%"}

Texts(n) == UNION {[1..k -> CredChars] : k \in 0..n}

\* models.py 41-42: a nullable text column: None, or a text that may be "".
Credential(set, text) == [set |-> set, text |-> text]

Credentials ==
    {Credential(FALSE, <<>>)} \cup {Credential(TRUE, t) : t \in Texts(MaxCred)}

\* Python's truth value of the column.
Truthy(c) == c.set /\ c.text # <<>>

\* urllib.parse.quote: the characters it leaves alone whatever `safe` is.
AlwaysSafe == {"a", "h", "p", "x", ".", "-", "_", "~"}

\* "%XX" of a character, two upper-case hexadecimal digits of its code.
PercentCode(c) ==
    CASE c = "@" -> <<"%", "4", "0">>
      [] c = ":" -> <<"%", "3", "A">>
      [] c = "/" -> <<"%", "2", "F">>
      [] c = "%" -> <<"%", "2", "5">>

\* Mutant of Safe: quote's default, safe='/'.
SafeDefault == {"/"}

\* checker.py 17-18: safe=''
Safe == {}

\* urllib.parse.quote(text, safe=Safe)
RECURSIVE quote(_)
quote(text) ==
    IF text = <<>> THEN <<>>
    ELSE (IF Head(text) \in AlwaysSafe \cup Safe THEN <<Head(text)>>
          ELSE PercentCode(Head(text))) \o quote(Tail(text))

\* str(port), in decimal.
DigitChars == <<"0", "1", "2", "3", "4", "5", "6", "7", "8", "9">>

RECURSIVE ToDecimal(_)
ToDecimal(n) ==
    IF n < 10 THEN <<DigitChars[n + 1]>>
    ELSE ToDecimal(n \div 10) \o <<DigitChars[(n % 10) + 1]>>

\* Mutant of SchemeFor: the stored protocol is the scheme (models.py 47-50).
SchemeAsStored(protocol) == Chars(protocol)

\* checker.py 20, 26-30: socks5 stays socks5, anything else dials http.
SchemeFor(protocol) == IF protocol = "socks5" THEN Chars("socks5") ELSE Chars("http")

\* Mutant of WithCredentials: one credential is enough.
WithEitherCredential(username, password) == username # <<>> \/ password # <<>>

\* checker.py 21, 27: `if username and password`, on the quoted values (None
\* is the empty text here, which is as false).
WithCredentials(username, password) == username # <<>> /\ password # <<>>

\* checker.py 14-30
get_proxy_url_for_httpx(proxy) ==
    LET username == IF Truthy(proxy.username) THEN quote(proxy.username.text) ELSE <<>>
        password == IF Truthy(proxy.password) THEN quote(proxy.password.text) ELSE <<>>
        endpoint == proxy.host \o Chars(":") \o ToDecimal(proxy.port)
    IN  IF WithCredentials(username, password)
        THEN SchemeFor(proxy.protocol) \o Chars("://") \o username \o Chars(":")
                \o password \o Chars("@") \o endpoint
        ELSE SchemeFor(proxy.protocol) \o Chars("://") \o endpoint

\* ------------------------------------------------ reading a URL back
\* The position of the first and of the last c in text (0: none).
First(text, c) ==
    LET at == {i \in DOMAIN text : text[i] = c}
    IN  IF at = {} THEN 0 ELSE CHOOSE i \in at : \A j \in at : i <= j

Last(text, c) ==
    LET at == {i \in DOMAIN text : text[i] = c}
    IN  IF at = {} THEN 0 ELSE CHOOSE i \in at : \A j \in at : i >= j

Before(text, i) == SubSeq(text, 1, i - 1)

After(text, i) == SubSeq(text, i + 1, Len(text))

\* The character "%XX" stands for ("?" when it stands for none of CredChars).
Decoded(code) ==
    IF \E c \in CredChars \ AlwaysSafe : PercentCode(c) = code
    THEN CHOOSE c \in CredChars \ AlwaysSafe : PercentCode(c) = code
    ELSE "?"

\* urllib.parse.unquote
RECURSIVE unquote(_)
unquote(text) ==
    IF text = <<>> THEN <<>>
    ELSE IF Head(text) = "%" /\ Len(text) >= 3
         THEN <<Decoded(SubSeq(text, 1, 3))>> \o unquote(SubSeq(text, 4, Len(text)))
         ELSE <<Head(text)>> \o unquote(Tail(text))

\* int(text), NULL when text is not a decimal number.
RECURSIVE FromDecimal(_)
FromDecimal(text) ==
    LET d == First(DigitChars, text[Len(text)])
        rest == Before(text, Len(text))
    IN  IF text = <<>> \/ d = 0 THEN NULL
        ELSE IF rest = <<>> THEN d - 1
        ELSE IF FromDecimal(rest) = NULL THEN NULL
        ELSE FromDecimal(rest) * 10 + (d - 1)

\* A URL split as RFC 3986 says and as urllib.parse.urlsplit does: the scheme
\* ends at the first ":", the authority at the next "/", the user information
\* at the last "@" of the authority, the user name at the first ":" of the
\* user information, and the port starts after the last ":" of what is left.
ParseUrl(url) ==
    LET colon == First(url, ":")
        rest == SubSeq(url, colon + 3, Len(url))
        slash == First(rest, "/")
        authority == IF slash = 0 THEN rest ELSE Before(rest, slash)
        at == Last(authority, "@")
        userinfo == Before(authority, at)
        hostport == After(authority, at)
        sep == First(userinfo, ":")
        portsep == Last(hostport, ":")
    IN  [scheme |-> Before(url, colon),
         has_userinfo |-> at # 0,
         username |-> unquote(IF sep = 0 THEN userinfo ELSE Before(userinfo, sep)),
         password |-> IF sep = 0 THEN <<>> ELSE unquote(After(userinfo, sep)),
         host |-> IF portsep = 0 THEN hostport ELSE Before(hostport, portsep),
         port |-> IF portsep = 0 THEN NULL ELSE FromDecimal(After(hostport, portsep))]

\* ----------------------------------------- one call of the URL builder
Protocols == {"http", "https", "socks5", "socks4"}

Hosts == {<<"p", ".", "x">>}

Ports == {80, 3128}

Proxies ==
    [protocol : Protocols, host : Hosts, port : Ports,
     username : Credentials, password : Credentials]

ProxyInit ==
    /\ EngineIdle
    /\ notification_settings = <<>>
    /\ notification_recipients = <<>>
    /\ fetched = <<>>
    /\ built \in {[proxy |-> x, state |-> "called", url |-> <<>>] : x \in Proxies}
    /\ proxies = {}
    /\ held = [p \in Runners |-> {}]

\* checker.py 44-47: check_url builds the endpoint of the proxy it was given.
CallGetProxyUrl ==
    /\ built # <<>>
    /\ built.state = "called"
    /\ built' = [built EXCEPT !.state = "returned",
                              !.url = get_proxy_url_for_httpx(built.proxy)]
    /\ UNCHANGED <<clock, monitored_urls, url_checks, notification_settings,
                   notification_recipients, notifications, kind, pc, tnow, urls,
                   idx, session, cur, seen, progress, hist, updates, started,
                   fetched, deleted, proxies, held>>

ProxyNext == CallGetProxyUrl

ProxySpec == ProxyInit /\ [][ProxyNext]_vars

\* --------------------------------------------------- creating URLs
MinInterval == 10       \* max(10, int(interval_str))
DefaultInterval == 60   \* check_interval = 60

\* schemas.py 47: check_interval of the body of POST /api/urls, any integer.
PostedIntervals == {0 - 5, 0, 5, MinInterval, DefaultInterval}

\* The check_interval cell of a CSV row, stripped: empty, not a number, or a
\* number with or without a sign.
IntervalCells ==
    { <<>>, <<"x">>, <<"0">>, <<"5">>, <<"-", "5">>, <<"1", "0">>, <<"6", "0">> }

\* int(text): the value, or that it raises ValueError.
IntOf(text) ==
    LET digits == IF text # <<>> /\ Head(text) = "-" THEN Tail(text) ELSE text
        n == FromDecimal(digits)
    IN  IF n = NULL THEN [ok |-> FALSE, value |-> 0]
        ELSE [ok |-> TRUE,
              value |-> IF text # <<>> /\ Head(text) = "-" THEN 0 - n ELSE n]

\* main.py 400-407: the interval import_urls_csv gives a row.
CsvInterval(cell) ==
    IF cell # <<>> /\ IntOf(cell).ok
    THEN (IF IntOf(cell).value >= MinInterval THEN IntOf(cell).value ELSE MinInterval)
    ELSE DefaultInterval

\* The rows the requests being served have added to their sessions.
Pending == {p \in Runners : kind[p] \in {"create", "import"}}

\* The table has room, within NumUrls, for the row of one more request.
Room == Len(monitored_urls) + Cardinality(Pending) < NumUrls

\* main.py 315-322: create_url builds the row from the body and adds it.
CreateUrl(p, interval) ==
    /\ FreeSlot(p)
    /\ Room
    /\ kind' = [kind EXCEPT ![p] = "create"]
    /\ pc' = [pc EXCEPT ![p] = "insert"]
    /\ session' = [session EXCEPT ![p] = <<NewUrlRow(interval)>>]
    /\ UNCHANGED <<notification_recipients, fetched, deleted, built, proxies, held,
                   clock, monitored_urls, url_checks, notification_settings,
                   notifications, tnow, urls, idx, cur, seen, progress, hist,
                   updates, started>>

\* main.py 335-418: import_urls_csv reads a file of one row, works out the
\* row's interval and adds the row.
ImportCsv(p, cell) ==
    /\ FreeSlot(p)
    /\ Room
    /\ kind' = [kind EXCEPT ![p] = "import"]
    /\ pc' = [pc EXCEPT ![p] = "insert"]
    /\ session' = [session EXCEPT ![p] = <<NewUrlRow(CsvInterval(cell))>>]
    /\ UNCHANGED <<notification_recipients, fetched, deleted, built, proxies, held,
                   clock, monitored_urls, url_checks, notification_settings,
                   notifications, tnow, urls, idx, cur, seen, progress, hist,
                   updates, started>>

\* main.py 323 and 420: the INSERT and COMMIT of either handler.
InsertUrl(p) ==
    /\ kind[p] \in {"create", "import"} /\ pc[p] = "insert"
    /\ monitored_urls' = monitored_urls \o session[p]
    /\ session' = [session EXCEPT ![p] = <<>>]
    /\ pc' = [pc EXCEPT ![p] = "done"]
    /\ UNCHANGED <<notification_recipients, fetched, deleted, built, proxies, held,
                   clock, url_checks, notification_settings, notifications, kind,
                   tnow, urls, idx, cur, seen, progress, hist, updates, started>>

\* An installation without URLs, and the two ways of adding them.
IntakeInit ==
    /\ clock = 0
    /\ monitored_urls = <<>>
    /\ url_checks = <<>>
    /\ notification_settings = <<>>
    /\ notification_recipients = <<>>
    /\ notifications = <<>>
    /\ kind = [p \in Runners |-> "idle"]
    /\ pc = [p \in Runners |-> "idle"]
    /\ tnow = [p \in Runners |-> NULL]
    /\ urls = [p \in Runners |-> <<>>]
    /\ idx = [p \in Runners |-> 0]
    /\ session = [p \in Runners |-> <<>>]
    /\ cur = [p \in Runners |-> NoCur]
    /\ seen = [p \in Runners |-> <<>>]
    /\ progress = [p \in Runners |-> <<>>]
    /\ hist = <<>>
    /\ updates = [u \in Urls |-> 0]
    /\ started = 0
    /\ fetched = <<>>
    /\ deleted = {}
    /\ built = <<>>
    /\ proxies = {}
    /\ held = [p \in Runners |-> {}]

IntakeNext ==
    \/ \E p \in Runners, interval \in PostedIntervals : CreateUrl(p, interval)
    \/ \E p \in Runners, cell \in IntervalCells : ImportCsv(p, cell)
    \/ \E p \in Runners : InsertUrl(p)
    \/ \E p \in Runners : Close(p)

IntakeSpec == IntakeInit /\ [][IntakeNext]_vars

\* --------------------------------------------- misconfigured channels
\* models.py 96-104: a settings row that notifies on every check, with each of
\* the SMTP host, the sender address and the bot token entered or left empty.
ChannelSettings ==
    { << [SettingsRow(TRUE, TRUE, FALSE, TRUE) EXCEPT !.smtp_host = h,
                                                     !.smtp_from_email = f,
                                                     !.telegram_bot_token = t] >> :
        h \in {NONE, SmtpHost}, f \in {NONE, SmtpFrom}, t \in {NONE, BotToken} }

\* One active recipient on each channel.
ChannelRecipients ==
    << RecipientRow(1, "email", "a@example.org", TRUE),
       RecipientRow(2, "telegram", "1001", TRUE) >>

ChannelFetches == { Response(200, <<>>, NONE), Failure("ConnectError", "refused") }

ChannelInit ==
    /\ EngineIdle
    /\ built = <<>>
    /\ proxies = {}
    /\ held = [p \in Runners |-> {}]
    /\ notification_settings \in ChannelSettings
    /\ notification_recipients = ChannelRecipients
    /\ fetched = <<>>

\* Checks of one URL, one at a time, each followed by its dispatch; the
\* transport of a configured channel may fail for any of the recipients.
ChannelNext ==
    \/ \E p \in Runners : Quiet /\ CheckUrlNow(p, WatchedUrl)
    \/ \E p \in Runners, f \in ChannelFetches : Commit(p, f)
    \/ \E p \in Runners :
          \E failed \in SUBSET ActiveIds(notification_recipients) : Notify(p, failed)
    \/ \E p \in Runners : Close(p)

ChannelSpec == ChannelInit /\ [][ChannelNext]_vars

\* ------------------------------------- delete_proxy and update_url
\* main.py 286-297: delete_proxy loads the Proxy (404 when it is gone), deletes
\* it and commits.  MonitoredURL.proxy is declared with a backref and no
\* cascade (models.py 72): whether the flush of the delete sets the proxy_id
\* of the URLs that use the proxy to NULL or leaves it as it is depends on the
\* ORM and the database, so both outcomes are possible (`nullify`).
DeleteProxy(id, nullify) ==
    /\ id \in proxies
    /\ proxies' = proxies \ {id}
    /\ monitored_urls' =
          [u \in DOMAIN monitored_urls |->
              IF nullify /\ monitored_urls[u].proxy_id = id
              THEN [monitored_urls[u] EXCEPT !.proxy_id = NULL]
              ELSE monitored_urls[u]]
    /\ UNCHANGED <<notification_recipients, fetched, deleted, built, held,
                   clock, url_checks, notification_settings, notifications,
                   kind, pc, tnow, urls, idx, session, cur, seen, progress, hist,
                   updates, started>>

\* Bodies of PUT /api/urls/{id}: the fields the client set
\* (schemas.py 55-61, model_dump(exclude_unset=True)).
UrlUpdates == { [is_active |-> FALSE], [is_active |-> TRUE] }

\* main.py 451-466: update_url loads the URL in a session of its own (404 when
\* it is gone), sets the fields of the body and commits; the flush writes the
\* columns whose value changed.
UpdateUrl(u, data) ==
    /\ u \notin deleted
    /\ monitored_urls' = [monitored_urls EXCEPT ![u].is_active = data.is_active]
    /\ UNCHANGED <<notification_recipients, fetched, deleted, built, proxies, held,
                   clock, url_checks, notification_settings, notifications,
                   kind, pc, tnow, urls, idx, session, cur, seen, progress, hist,
                   updates, started>>

AdminFetches == { Response(200, <<>>, NONE) }

\* The ids of the Proxy rows an administrator has stored.
ProxyIds == {1}

\* Every URL is active and fetched through the one proxy that is stored.
AdminInit ==
    /\ clock = 0
    /\ monitored_urls = [u \in Urls |->
                            [NewUrlRow(CheckInterval(u)) EXCEPT !.proxy_id = 1]]
    /\ url_checks = <<>>
    /\ notification_settings = <<>>
    /\ notification_recipients = <<>>
    /\ notifications = <<>>
    /\ kind = [p \in Runners |-> "idle"]
    /\ pc = [p \in Runners |-> "idle"]
    /\ tnow = [p \in Runners |-> NULL]
    /\ urls = [p \in Runners |-> <<>>]
    /\ idx = [p \in Runners |-> 0]
    /\ session = [p \in Runners |-> <<>>]
    /\ cur = [p \in Runners |-> NoCur]
    /\ seen = [p \in Runners |-> <<>>]
    /\ progress = [p \in Runners |-> <<>>]
    /\ hist = <<>>
    /\ updates = [u \in Urls |-> 0]
    /\ started = 0
    /\ deleted = {}
    /\ fetched = <<>>
    /\ built = <<>>
    /\ proxies = ProxyIds
    /\ held = [p \in Runners |-> {}]

\* Ticks, check-all and check-now requests, while an administrator deletes
\* the proxy and switches URLs off and on.
AdminNext ==
    \/ \E p \in Runners : TimerFire(p)
    \/ \E p \in Runners : TickDispatch(p)
    \/ \E p \in Runners : TickNotDue(p)
    \/ \E p \in Runners : CheckAllNow(p)
    \/ \E p \in Runners : AllDispatch(p)
    \/ \E p \in Runners : LoopEnd(p)
    \/ \E p \in Runners, u \in Urls : CheckUrlNow(p, u)
    \/ \E p \in Runners, f \in AdminFetches : Commit(p, f)
    \/ \E p \in Runners : Notify(p, {})
    \/ \E p \in Runners : Close(p)
    \/ \E id \in ProxyIds, nullify \in BOOLEAN : DeleteProxy(id, nullify)
    \/ \E u \in Urls, data \in UrlUpdates : UpdateUrl(u, data)

AdminSpec == AdminInit /\ [][AdminNext]_vars

\* ------------------------------------------------------------- claims
\* The checks of URL u that were committed, by check id.
ChecksOf(u) == {c \in DOMAIN hist : hist[c].url = u}

LastCheckOf(u) == CHOOSE c \in ChecksOf(u) : \A d \in ChecksOf(u) : d <= c

\* A call of check_monitored_url for u has not returned yet.
InFlight(u) == \E p \in Runners : pc[p] \in {"fetch", "settings"} /\ cur[p].url = u

\* The six cached result columns of a row, and the same six of an outcome.
Cached(row) ==
    <<row.last_status_code, row.last_error, row.last_response_time,
      row.last_final_url, row.last_redirect_count, row.last_redirect_code>>

Outcome(r) ==
    <<r.status_code, r.error, r.response_time,
      r.final_url, r.redirect_count, r.redirect_code>>

\* A run of one of the two loops has ended, normally or by an exception.
Ended(p) == kind[p] \in {"sched", "all"} /\ pc[p] \in {"done", "failed"}

\* URL u of the list a run loaded was due in that run, by the rows it loaded.
DueIn(p, u) ==
    \/ kind[p] = "all"
    \/ seen[p][u].last_check = NULL
    \/ tnow[p] - seen[p][u].last_check >= seen[p][u].check_interval

Listed(p) == {urls[p][i] : i \in 1..Len(urls[p])}

\* C1: whenever no check of a URL is in flight, the six cached result columns
\* of its row equal the outcome of the check of it that was committed last.
C1_SnapshotIsLastCheck ==
    \A u \in Urls :
        (~InFlight(u) /\ ChecksOf(u) # {})
            => Cached(monitored_urls[u]) = Outcome(hist[LastCheckOf(u)].result)

\* C2: the cached columns of a row, last_check included, all come from one
\* single committed check of that URL.
C2_SnapshotFromOneCheck ==
    \A u \in Urls :
        ChecksOf(u) # {}
            => \E c \in ChecksOf(u) :
                  /\ Cached(monitored_urls[u]) = Outcome(hist[c].result)
                  /\ monitored_urls[u].last_check = hist[c].at

\* C3: no two calls of check_monitored_url for one URL are at the same time
\* between reading the previous cached state and committing.
C3_ChecksSerialized ==
    \A p, q \in Runners :
        (p # q /\ pc[p] = "fetch" /\ pc[q] = "fetch") => cur[p].url # cur[q].url

\* C4: every check that got past its commit, whatever its fetch did, has
\* exactly one URLCheck row, holding its outcome; and per URL the number of
\* URLCheck rows, of such checks and of cache overwrites are the same.
C4_OneRecordOneOverwrite ==
    /\ \A c \in DOMAIN hist :
          LET rows == {i \in DOMAIN url_checks : url_checks[i].id = c}
          IN  /\ Cardinality(rows) = 1
              /\ \A i \in rows :
                    /\ url_checks[i].monitored_url_id = hist[c].url
                    /\ url_checks[i].status_code = hist[c].result.status_code
                    /\ url_checks[i].error_message = hist[c].result.error
                    /\ url_checks[i].response_time = hist[c].result.response_time
    /\ \A u \in Urls :
          LET rows == {i \in DOMAIN url_checks : url_checks[i].monitored_url_id = u}
          IN  /\ Cardinality(rows) = Cardinality(ChecksOf(u))
              /\ updates[u] = Cardinality(ChecksOf(u))

\* C4 witness: a check whose fetch failed has returned, with its row stored.
C4_Witness ==
    \E c \in DOMAIN hist :
        /\ hist[c].phase = "returned"
        /\ hist[c].result.status_code = NULL
        /\ hist[c].result.error = "Timeout"
        /\ \E i \in DOMAIN url_checks : url_checks[i].id = c

\* C5: at most one run of scheduled_check is alive, so no two scheduled checks
\* of one URL run at once.
C5_TicksDoNotOverlap ==
    /\ Cardinality({p \in Runners : kind[p] = "sched"}) <= 1
    /\ \A p, q \in Runners :
          (p # q /\ kind[p] = "sched" /\ kind[q] = "sched")
              => ~(pc[p] = "fetch" /\ pc[q] = "fetch" /\ cur[p].url = cur[q].url)

\* C5 witness: a tick is still fetching after the clock moved on, a slot is
\* free, and the trigger may not start another run.
C5_Witness ==
    \E p \in Runners :
        /\ kind[p] = "sched" /\ pc[p] = "fetch" /\ clock > tnow[p]
        /\ \E q \in Runners : kind[q] = "idle"
        /\ ~CanStart

\* C6: when a run of scheduled_check or check_all_urls_now has ended, every due
\* URL of the list it loaded had check_monitored_url called for it.
C6_FailureNeverAbortsRun ==
    \A p \in Runners :
        Ended(p) => \A u \in Listed(p) : DueIn(p, u) => u \in DOMAIN progress[p]

\* C7: when such a run has ended, every due URL of its list whose own commit
\* did not fail has its check persisted.
C7_CommitFailureIsLocal ==
    \A p \in Runners :
        Ended(p) =>
            \A u \in Listed(p) :
                DueIn(p, u) =>
                    /\ u \in DOMAIN progress[p]
                    /\ progress[p][u] \in {"persisted", "commit_failed"}

\* C8: in a tick, a URL already passed by the loop was dispatched if and only
\* if its last check was unset or tick time - last check >= its interval.
C8_DispatchIffDue ==
    \A p \in Runners :
        kind[p] = "sched" =>
            /\ \A u \in DOMAIN progress[p] :
                  \/ seen[p][u].last_check = NULL
                  \/ tnow[p] - seen[p][u].last_check >= seen[p][u].check_interval
            /\ \A i \in 1..Len(urls[p]) :
                  (/\ i < idx[p]
                   /\ \/ seen[p][urls[p][i]].last_check = NULL
                      \/ tnow[p] - seen[p][urls[p][i]].last_check
                            >= seen[p][urls[p][i]].check_interval)
                      => urls[p][i] \in DOMAIN progress[p]

\* C8 witness: a tick dispatched a URL whose elapsed time equals its interval.
C8_Witness ==
    \E p \in Runners :
        /\ kind[p] = "sched"
        /\ \E u \in DOMAIN progress[p] :
              /\ seen[p][u].last_check # NULL
              /\ tnow[p] - seen[p][u].last_check = seen[p][u].check_interval

\* C9: every outcome of check_url has exactly one of status_code and error set.
C9_ExactlyOneOfStatusAndError ==
    \A p \in Runners :
        cur[p].result # <<>> =>
            ((cur[p].result.status_code # NULL) # (cur[p].result.error # NONE))

\* C10: a returned check that read settings with notify_on_every_check enabled
\* made exactly one call of send_notification, the regular-check one, and it
\* was sent.
C10_EveryCheckAlwaysNotifies ==
    \A c \in DOMAIN hist :
        (/\ hist[c].phase = "returned"
         /\ hist[c].settings # <<>>
         /\ hist[c].settings[1].notify_on_every_check)
            => LET calls == {i \in DOMAIN notifications : notifications[i].check = c}
               IN  /\ Cardinality(calls) = 1
                   /\ \A i \in calls :
                         /\ notifications[i].rule = "every_check"
                         /\ notifications[i].is_regular_check
                         /\ ~notifications[i].is_recovery
                         /\ notifications[i].outcome = "sent"

\* C10 witness: with notify_on_error and notify_on_recovery both disabled, a
\* failed check by the scheduler has returned and its notification was sent.
C10_Witness ==
    \E c \in DOMAIN hist :
        /\ hist[c].phase = "returned"
        /\ hist[c].settings # <<>>
        /\ hist[c].settings[1].notify_on_every_check
        /\ ~hist[c].settings[1].notify_on_error
        /\ ~hist[c].settings[1].notify_on_recovery
        /\ hist[c].result.error # NONE
        /\ \E i \in DOMAIN notifications :
              notifications[i].check = c /\ notifications[i].outcome = "sent"

\* ------------------------------------- claims on the notification rules
\* The calls of send_notification made by check c.
CallsOf(c) == {i \in DOMAIN notifications : notifications[i].check = c}

\* Check c went through its notification decision and returned.
Decided(c) == hist[c].phase = "returned" /\ hist[c].read

\* "Error message present, or status code >= 400".
Erroneous(error, status) == error # NONE \/ (status # NULL /\ status >= 400)

CurrentIsError(c) == Erroneous(hist[c].result.error, hist[c].result.status_code)

PreviousWasError(c) == Erroneous(hist[c].previous_error, hist[c].previous_status)

\* The four triggers as check c read them.
Trigger(c) == hist[c].settings[1]

\* The dispatcher went on to its recipients (or one of its queries raised on
\* the way): the call was neither refused for want of settings nor skipped.
Dispatched(i) == notifications[i].outcome \in {"sent", "raised"}

\* C11: with every-check off and notify_on_error on, a check whose outcome is
\* an error and whose previous cached state was none or not an error makes
\* exactly one call of send_notification, the new-error one, and the call is
\* not skipped.
C11_NewErrorNotifies ==
    \A c \in DOMAIN hist :
        (/\ Decided(c)
         /\ hist[c].settings # <<>>
         /\ ~Trigger(c).notify_on_every_check
         /\ Trigger(c).notify_on_error
         /\ CurrentIsError(c)
         /\ ~PreviousWasError(c))
            => /\ Cardinality(CallsOf(c)) = 1
               /\ \A i \in CallsOf(c) :
                     /\ notifications[i].rule = "error"
                     /\ ~notifications[i].is_recovery
                     /\ ~notifications[i].is_regular_check
                     /\ Dispatched(i)

\* C11 witness: the first check of a URL answered 500, with no error message,
\* and the new-error notification reached a recipient.
C11_Witness ==
    \E c \in DOMAIN hist :
        /\ Decided(c)
        /\ hist[c].settings # <<>>
        /\ ~Trigger(c).notify_on_every_check
        /\ Trigger(c).notify_on_error
        /\ hist[c].previous_status = NULL /\ hist[c].previous_error = NONE
        /\ hist[c].result.status_code = 500 /\ hist[c].result.error = NONE
        /\ \E i \in CallsOf(c) :
              /\ notifications[i].rule = "error"
              /\ notifications[i].outcome = "sent"
              /\ notifications[i].results.email # <<>>

\* Check c is not the first committed check of its URL.
NotFirst(c) == \E d \in ChecksOf(hist[c].url) : d < c

\* C12: with every-check off and notify_on_recovery on, a check that is not
\* the first of its URL, whose previous check was an error and whose own
\* outcome is none, calls send_notification for a recovery and the call is not
\* skipped -- also when the previous check failed without a status code.
C12_RecoveryNotifies ==
    \A c \in DOMAIN hist :
        (/\ Decided(c)
         /\ hist[c].settings # <<>>
         /\ ~Trigger(c).notify_on_every_check
         /\ Trigger(c).notify_on_recovery
         /\ NotFirst(c)
         /\ PreviousWasError(c)
         /\ ~CurrentIsError(c))
            => \E i \in CallsOf(c) :
                  /\ notifications[i].rule = "recovery"
                  /\ notifications[i].is_recovery
                  /\ Dispatched(i)

\* C13: with every-check off and notify_on_status_change on, a check for which
\* neither the new-error nor the recovery rule matches and whose previous
\* status code existed and differs from the current one has its notification
\* dispatched, whatever notify_on_error is.
C13_StatusChangeIndependent ==
    \A c \in DOMAIN hist :
        (/\ Decided(c)
         /\ hist[c].settings # <<>>
         /\ ~Trigger(c).notify_on_every_check
         /\ Trigger(c).notify_on_status_change
         /\ ~(CurrentIsError(c) /\ ~PreviousWasError(c))
         /\ ~(~CurrentIsError(c) /\ PreviousWasError(c))
         /\ hist[c].previous_status # NULL
         /\ hist[c].previous_status # hist[c].result.status_code)
            => \E i \in CallsOf(c) : Dispatched(i)

\* The first rule that matches for check c, in the order every-check,
\* new-error, recovery, status-change.
FirstMatch(c) ==
    IF Trigger(c).notify_on_every_check THEN "every_check"
    ELSE IF CurrentIsError(c) /\ ~PreviousWasError(c) THEN "error"
    ELSE IF /\ ~CurrentIsError(c) /\ PreviousWasError(c)
            /\ hist[c].previous_status # NULL
         THEN "recovery"
    ELSE IF /\ Trigger(c).notify_on_status_change
            /\ hist[c].previous_status # NULL
            /\ hist[c].previous_status # hist[c].result.status_code
         THEN "status_change"
    ELSE "none"

\* C14: a check calls send_notification at most once, and the call it makes
\* is the one of the first matching rule; with no rule matching, or with no
\* settings row, it makes none.
C14_AtMostOneFirstMatch ==
    \A c \in DOMAIN hist :
        /\ Cardinality(CallsOf(c)) <= 1
        /\ (Decided(c) /\ hist[c].settings = <<>>) => CallsOf(c) = {}
        /\ (Decided(c) /\ hist[c].settings # <<>>) =>
              /\ FirstMatch(c) = "none" => CallsOf(c) = {}
              /\ FirstMatch(c) # "none" =>
                    /\ Cardinality(CallsOf(c)) = 1
                    /\ \A i \in CallsOf(c) : notifications[i].rule = FirstMatch(c)

\* C14 witness: every-check and notify_on_error are both on and a first check
\* failed, so two rules match; the one call made is the every-check one.
C14_Witness ==
    \E c \in DOMAIN hist :
        /\ Decided(c)
        /\ hist[c].settings # <<>>
        /\ Trigger(c).notify_on_every_check
        /\ Trigger(c).notify_on_error
        /\ CurrentIsError(c) /\ ~PreviousWasError(c)
        /\ \E i \in CallsOf(c) :
              notifications[i].rule = "every_check" /\ notifications[i].outcome = "sent"

\* C15: with every-check off, a check whose error classification and status
\* code both equal those of the previous state calls send_notification not at
\* all.
C15_NoRepeatedAlerts ==
    \A c \in DOMAIN hist :
        (/\ Decided(c)
         /\ hist[c].settings # <<>>
         /\ ~Trigger(c).notify_on_every_check
         /\ CurrentIsError(c) = PreviousWasError(c)
         /\ hist[c].result.status_code = hist[c].previous_status)
            => CallsOf(c) = {}

\* C15 witness: a URL failed twice in a row with every trigger but every-check
\* on; the first failure was notified, the second made no call.
C15_Witness ==
    \E c, d \in DOMAIN hist :
        /\ c < d /\ hist[c].url = hist[d].url
        /\ Decided(c) /\ Decided(d)
        /\ hist[d].settings = <<SettingsRow(TRUE, TRUE, TRUE, FALSE)>>
        /\ hist[c].result.error # NONE /\ hist[d].result.error # NONE
        /\ hist[d].previous_error = hist[c].result.error
        /\ \E i \in CallsOf(c) : notifications[i].outcome = "sent"
        /\ CallsOf(d) = {}

\* C16: no check whose record and cache overwrite were committed ends by
\* raising to its caller because its notification could not be decided on or
\* delivered.
C16_NotificationFailureNeverFailsCheck ==
    \A c \in DOMAIN hist : hist[c].phase # "raised"

\* C17: every call of send_notification belongs to a check whose URLCheck row
\* is stored with that check's outcome and whose cache overwrite was applied;
\* there are never more calls than committed checks.
C17_NotifyOnlyAfterCommit ==
    /\ Len(notifications) <= Len(hist)
    /\ \A i \in DOMAIN notifications :
          LET c == notifications[i].check
              rows == {k \in DOMAIN url_checks : url_checks[k].id = c}
          IN  /\ c \in DOMAIN hist
              /\ hist[c].url = notifications[i].url
              /\ updates[hist[c].url] >= 1
              /\ Cardinality(rows) = 1
              /\ \A k \in rows :
                    /\ url_checks[k].monitored_url_id = hist[c].url
                    /\ url_checks[k].status_code = hist[c].result.status_code
                    /\ url_checks[k].error_message = hist[c].result.error

\* C17 witness: in one run the commit of one check failed and the failed
\* fetch of another was committed and notified; only the latter has a call.
C17_Witness ==
    /\ \E p \in Runners :
          \E u \in DOMAIN progress[p] : progress[p][u] = "commit_failed"
    /\ Len(notifications) = 1
    /\ notifications[1].outcome = "sent"
    /\ hist[notifications[1].check].result.error = "Timeout"

\* The breakdown of call i has exactly one entry for every recipient that was
\* active when it was made, in the recipient's channel and with the result of
\* that recipient's delivery, and no entry for an inactive recipient.
BreakdownExact(i) ==
    LET n == notifications[i]
        T == n.table
        ActiveIn(ch) == {j \in DOMAIN T : T[j].is_active /\ T[j].channel = ch}
        EntriesFor(ch, j) == {k \in DOMAIN n.results[ch] :
                                n.results[ch][k].address = T[j].address}
    IN  \A ch \in {"email", "telegram"} :
            /\ Len(n.results[ch]) = Cardinality(ActiveIn(ch))
            /\ \A j \in ActiveIn(ch) :
                  /\ Cardinality(EntriesFor(ch, j)) = 1
                  /\ \A k \in EntriesFor(ch, j) :
                        n.results[ch][k].success = (T[j].id \notin n.failed)
            /\ \A j \in DOMAIN T : ~T[j].is_active => EntriesFor(ch, j) = {}

RaisedClass ==
    IF fetched.input.exc # NONE THEN fetched.input.exc ELSE fetched.input.exit_exc

\* The call has ended and its fetch failed with an Exception.
FetchFailed ==
    /\ fetched # <<>>
    /\ fetched.state # "called"
    /\ RaisedClass # NONE
    /\ "Exception" \in Bases(RaisedClass)

HasPrefix(s, prefix) ==
    Len(s) >= Len(prefix) /\ SubSeq(s, 1, Len(prefix)) = prefix

\* C19: a call of check_url whose fetch failed returns a result, with an
\* error message and a response time, and raises nothing.
C19_FailureBecomesOutcome ==
    FetchFailed =>
        /\ fetched.state = "returned"
        /\ fetched.raised = NONE
        /\ fetched.result.error # NONE
        /\ fetched.result.response_time # NULL

\* C19 witness: a read error, which only the catch-all clause handles, was
\* returned as an outcome.
C19_Witness ==
    /\ FetchFailed
    /\ fetched.input.exc = "ReadError"
    /\ fetched.state = "returned"
    /\ fetched.result.error # NONE
    /\ fetched.result.response_time # NULL

\* C20: the error of a failed fetch is that of the first category, in the
\* order timeout, proxy, connection, other, that the exception belongs to, and
\* it starts with exactly one of the four prefixes.
C20_FirstCategoryWins ==
    FetchFailed =>
        LET e == fetched.result.error
            timeout == IsInstance(RaisedClass, "TimeoutException")
            proxy == IsInstance(RaisedClass, "ProxyError")
            connect == IsInstance(RaisedClass, "ConnectError")
        IN  /\ timeout => e = "Timeout"
            /\ (~timeout /\ proxy) => HasPrefix(e, "Proxy error: ")
            /\ (~timeout /\ ~proxy /\ connect) => HasPrefix(e, "Connection error: ")
            /\ (~timeout /\ ~proxy /\ ~connect) => HasPrefix(e, "Error: ")
            /\ Cardinality({x \in {"Timeout", "Proxy error: ", "Connection error: ",
                                   "Error: "} : HasPrefix(e, x)}) = 1

\* C20 witness: a connect timeout was classified as exactly "Timeout".
C20_Witness ==
    /\ FetchFailed
    /\ fetched.input.exc = "ConnectTimeout"
    /\ fetched.state = "returned"
    /\ fetched.result.error = "Timeout"

\* --------------------------------------------------- failed fetches
\* The fetch of committed check c failed before any response came back.
FetchFailedIn(c) == hist[c].result.status_code = NULL

\* C21: when the check of a URL that was committed last had a failed fetch,
\* its URLCheck row has no status code and carries the error ("Timeout" for a
\* timeout), and the row's cache holds that outcome in full: no last status
\* code, no final URL, redirect count 0 and no redirect code.
C21_FailedFetchResetsCache ==
    \A u \in Urls :
        (ChecksOf(u) # {} /\ FetchFailedIn(LastCheckOf(u)))
            => LET c == LastCheckOf(u)
                   row == monitored_urls[u]
               IN  /\ \E i \in DOMAIN url_checks :
                         /\ url_checks[i].id = c
                         /\ url_checks[i].status_code = NULL
                         /\ url_checks[i].error_message = "Timeout"
                   /\ row.last_error = "Timeout"
                   /\ row.last_status_code = NULL
                   /\ row.last_final_url = NONE
                   /\ row.last_redirect_count = 0
                   /\ row.last_redirect_code = NULL

\* ------------------------------------------------- redirect tracking
\* The GET of the call brought back a response and the client closed cleanly.
FetchSucceeded ==
    /\ fetched # <<>>
    /\ fetched.state = "returned"
    /\ fetched.input.exc = NONE
    /\ fetched.input.exit_exc = NONE

\* C22: after a successful fetch redirect_count is the number of hops followed,
\* final_url is set exactly when there was at least one hop and is then the URL
\* the chain ended at, and redirect_code is the status of the first hop, null
\* when there was none.
C22_RedirectTracking ==
    FetchSucceeded =>
        LET hops == fetched.input.history
            r == fetched.result
        IN  /\ r.redirect_count = Len(hops)
            /\ (r.final_url # NONE) <=> (r.redirect_count >= 1)
            /\ r.redirect_count >= 1 => r.final_url = fetched.input.url
            /\ r.redirect_code = IF hops = <<>> THEN NULL ELSE hops[1]

\* C22 witness: a chain of several hops whose first and last status differ.
C22_Witness ==
    /\ FetchSucceeded
    /\ Len(fetched.input.history) >= 2
    /\ fetched.input.history[1] # fetched.input.history[Len(fetched.input.history)]
    /\ fetched.result.redirect_code = fetched.input.history[1]

\* ------------------------------------------------ checking twice
\* The ids of the URLCheck rows of URL u.
RowIdsOf(u) ==
    {url_checks[i].id : i \in {j \in DOMAIN url_checks : url_checks[j].monitored_url_id = u}}

\* C23: when check_url_now has been served twice for a URL, one request after
\* the other, the URL has two URLCheck rows with different ids, one per call,
\* and the six cached columns and last_check of its row are those of the
\* second check alone.
C23_SecondCheckReplacesFirst ==
    \A u \in Urls :
        Cardinality(ChecksOf(u)) = 2
            => LET second == LastCheckOf(u)
                   rows == {i \in DOMAIN url_checks : url_checks[i].monitored_url_id = u}
               IN  /\ Cardinality(rows) = 2
                   /\ RowIdsOf(u) = ChecksOf(u)
                   /\ Cached(monitored_urls[u]) = Outcome(hist[second].result)
                   /\ monitored_urls[u].last_check = hist[second].at

\* C23 witness: both requests are over, the first went through a redirect and
\* the second did not.
C23_Witness ==
    /\ Quiet
    /\ \E u \in Urls :
          /\ Cardinality(ChecksOf(u)) = 2
          /\ \E c \in ChecksOf(u) :
                /\ c # LastCheckOf(u)
                /\ hist[c].result.redirect_count > 0
                /\ hist[LastCheckOf(u)].result.redirect_count = 0

\* ------------------------------------------------ the history of checks
\* URLCheck row r is in the table after the step as it was before it.
Kept(r) == \E j \in DOMAIN url_checks' : url_checks'[j] = r

\* The step deletes MonitoredURL u.
Deletes(u) == u \in deleted' /\ u \notin deleted

\* C24: in every step every URLCheck row either stays in the table with all
\* its fields as they were, or belongs to a URL that this step deletes; and a
\* step that deletes a URL leaves none of that URL's rows behind.
C24_ChecksAppendOnly ==
    [][ /\ \A i \in DOMAIN url_checks :
              Kept(url_checks[i]) \/ Deletes(url_checks[i].monitored_url_id)
        /\ \A u \in Urls :
              Deletes(u) => \A j \in DOMAIN url_checks' :
                                url_checks'[j].monitored_url_id # u ]_vars

\* C24 witness: one URL was deleted with its checks while the check of the
\* other URL is still in the table.
C24_Witness ==
    /\ deleted # {}
    /\ url_checks # <<>>
    /\ \E c \in DOMAIN hist : hist[c].url \in deleted
    /\ \A i \in DOMAIN url_checks : url_checks[i].monitored_url_id \notin deleted

\* ------------------------------------------------- the settings record
\* C25: the notification_settings table never holds more than one row.
C25_AtMostOneSettingsRow == Len(notification_settings) <= 1

\* C26: once a check has gone through its notification decision the settings
\* row exists; and a check that found no row decides as under the defaults,
\* so that a new error calls send_notification for it.
C26_CheckCreatesDefaultSettings ==
    \A c \in DOMAIN hist :
        Decided(c)
            => /\ notification_settings # <<>>
               /\ (hist[c].settings = <<>> /\ CurrentIsError(c) /\ ~PreviousWasError(c))
                     => \E i \in CallsOf(c) : notifications[i].rule = "error"

\* ------------------------------------------------- ticks never hang
\* C27: every run of scheduled_check that has started comes to its end: each
\* check it dispatches returns, fetch and notification delivery included.
C27_TickAlwaysFinishes ==
    \A p \in Runners : (kind[p] = "sched") ~> (kind[p] = "idle")

\* --------------------------------------------------- the proxy endpoint
\* The call of get_proxy_url_for_httpx has returned.
Built == built # <<>> /\ built.state = "returned"

BothCredentials == Truthy(built.proxy.username) /\ Truthy(built.proxy.password)

\* C28: the scheme of the endpoint is socks5 exactly when the proxy's protocol
\* is socks5, and http for every other protocol, https among them.
C28_SchemeFromProtocol ==
    Built =>
        LET scheme == ParseUrl(built.url).scheme
        IN  /\ (scheme = Chars("socks5")) <=> (built.proxy.protocol = "socks5")
            /\ built.proxy.protocol # "socks5" => scheme = Chars("http")

\* C28 witness: the endpoint of a proxy stored as https.
C28_Witness ==
    /\ Built
    /\ built.proxy.protocol = "https"
    /\ ParseUrl(built.url).scheme = Chars("http")

\* C29: for a proxy with user name and password, splitting the endpoint and
\* percent-decoding its user information gives back the user name, the
\* password, the host and the port.
C29_EndpointRoundTrip ==
    (Built /\ BothCredentials) =>
        LET parsed == ParseUrl(built.url)
        IN  /\ parsed.username = built.proxy.username.text
            /\ parsed.password = built.proxy.password.text
            /\ parsed.host = built.proxy.host
            /\ parsed.port = built.proxy.port

\* C29 witness: a user name with "@" and "/" and a password with ":" and "%".
C29_Witness ==
    /\ Built
    /\ built.proxy.username.text = <<"@", "/">>
    /\ built.proxy.password.text = <<":", "%">>
    /\ ParseUrl(built.url).username = <<"@", "/">>
    /\ ParseUrl(built.url).password = <<":", "%">>

\* C30: the endpoint has a user-information part exactly when user name and
\* password are both non-empty, and then both are in it; otherwise it is
\* scheme://host:port and nothing else.
C30_CredentialsBothOrNone ==
    Built =>
        LET parsed == ParseUrl(built.url)
        IN  /\ parsed.has_userinfo <=> BothCredentials
            /\ parsed.has_userinfo => (parsed.username # <<>> /\ parsed.password # <<>>)
            /\ ~BothCredentials =>
                  built.url = parsed.scheme \o Chars("://") \o built.proxy.host
                                 \o Chars(":") \o ToDecimal(built.proxy.port)

\* C30 witness: only the user name is set and the endpoint carries neither.
C30_Witness ==
    /\ Built
    /\ Truthy(built.proxy.username)
    /\ ~Truthy(built.proxy.password)
    /\ ~ParseUrl(built.url).has_userinfo
    /\ First(built.url, "@") = 0

\* ------------------------------------------------- error messages
\* The first ErrLimit characters of the text of the exception of the call.
DetailHead ==
    SubSeq(fetched.input.detail, 1,
           IF Len(fetched.input.detail) <= ErrLimit THEN Len(fetched.input.detail)
           ELSE ErrLimit)

\* C31: an error message of check_url is exactly "Timeout", or one of the
\* three prefixes followed by the first 100 characters of the exception text
\* and nothing more.
C31_ErrorMessageShape ==
    (fetched # <<>> /\ fetched.state = "returned" /\ fetched.result.error # NONE)
        => \/ fetched.result.error = "Timeout"
           \/ \E prefix \in {"Proxy error: ", "Connection error: ", "Error: "} :
                 /\ fetched.result.error = prefix \o DetailHead
                 /\ Len(fetched.result.error) <= Len(prefix) + ErrLimit

\* C31 witness: an exception text of more than 100 characters was cut.
C31_Witness ==
    /\ fetched # <<>>
    /\ fetched.state = "returned"
    /\ Len(fetched.input.detail) > ErrLimit
    /\ fetched.input.exc = "ProxyError"
    /\ Len(fetched.result.error) = Len("Proxy error: ") + ErrLimit

\* ------------------------------------------------- check intervals
\* C32: every stored MonitoredURL has a check interval of at least the
\* minimum, whichever handler created it.
C32_IntervalAtLeastMinimum ==
    \A u \in DOMAIN monitored_urls : monitored_urls[u].check_interval >= MinInterval

\* ------------------------------------------- claims on the two channels
EmailOff == notification_settings[1].smtp_host = NONE
            \/ notification_settings[1].smtp_from_email = NONE

TelegramOff == notification_settings[1].telegram_bot_token = NONE

IdsOn(table, channel) ==
    {table[j].id : j \in {k \in DOMAIN table :
                             table[k].is_active /\ table[k].channel = channel}}

\* One dispatch treats each channel on its own.
ChannelsIndependent(n) ==
    LET mail == IdsOn(n.table, "email")
        tg == IdsOn(n.table, "telegram")
    IN  /\ n.outcome = "sent"
        /\ Len(n.results.email) = Cardinality(mail)
        /\ Len(n.results.telegram) = Cardinality(tg)
        /\ EmailOff => /\ mail \cap n.contacted = {}
                       /\ \A k \in DOMAIN n.results.email :
                              ~n.results.email[k].success
        /\ ~EmailOff => mail \subseteq n.contacted
        /\ TelegramOff => /\ tg \cap n.contacted = {}
                          /\ \A k \in DOMAIN n.results.telegram :
                                 /\ ~n.results.telegram[k].success
                                 /\ n.errors[k] = NoTokenError
        /\ ~TelegramOff => tg \subseteq n.contacted

\* C33: a channel that is not configured (no SMTP host or sender address, no
\* bot token) gives a failed entry for each of its recipients without any
\* delivery attempt, the telegram entry with an error text; the dispatch
\* does not raise, and the recipients of the other channel are still
\* contacted in the same dispatch.
C33_MisconfigurationPerChannel ==
    \A i \in DOMAIN notifications : ChannelsIndependent(notifications[i])

\* A dispatch without a sender address whose telegram message was delivered,
\* and one without a bot token whose e-mail was delivered.
C33_Witness ==
    /\ \E i \in DOMAIN notifications :
          /\ notification_settings[1].smtp_from_email = NONE
          /\ ~TelegramOff
          /\ notifications[i].results.email # <<>>
          /\ ~notifications[i].results.email[1].success
          /\ notifications[i].results.telegram # <<>>
          /\ notifications[i].results.telegram[1].success
          /\ notifications[i].contacted = IdsOn(notifications[i].table, "telegram")

\* --------------------------------------- claims on overlapping checks
\* The checks of URL hist[c].url committed before check c.
CommittedBefore(c) == {d \in DOMAIN hist : d < c /\ hist[d].url = hist[c].url}

\* The check committed immediately before check c, for the same URL.
Predecessor(c) ==
    CHOOSE d \in CommittedBefore(c) : \A e \in CommittedBefore(c) : e <= d

\* C34: the previous state a check compares against is the outcome of the
\* check of that URL committed immediately before it (nothing, for the first
\* check of the URL), not a copy its session loaded earlier.
C34_PreviousIsLastCommitted ==
    \A c \in DOMAIN hist :
        IF CommittedBefore(c) = {}
        THEN hist[c].previous_status = NULL /\ hist[c].previous_error = NONE
        ELSE /\ hist[c].previous_status = hist[Predecessor(c)].result.status_code
             /\ hist[c].previous_error = hist[Predecessor(c)].result.error

\* The tick p dispatches the check of the URL its loop has reached.
TickStartsCheck(p) ==
    kind[p] = "sched" /\ pc[p] = "loop" /\ pc'[p] = "fetch"

\* The stored row of URL u says a check is due at time `now`.
DueAsPersisted(now, u) ==
    \/ monitored_urls[u].last_check = NULL
    \/ now - monitored_urls[u].last_check >= monitored_urls[u].check_interval

\* C35: whenever a scheduler tick dispatches a check of a URL, the last-check
\* time persisted for that URL at that moment is at least one check interval
\* old (or the URL was never checked).
C35_TickRespectsPersistedLastCheck ==
    [][\A p \in Runners :
          TickStartsCheck(p) => DueAsPersisted(clock, urls[p][idx[p]])]_vars

\* C36: every stored URLCheck references a MonitoredURL that still exists,
\* also when delete_url ran while a check of that URL was between its fetch
\* and its commit.
C36_NoOrphanChecks ==
    \A i \in DOMAIN url_checks : url_checks[i].monitored_url_id \notin deleted

\* A URL was deleted while a check of it was awaiting its fetch, with checks
\* of another URL stored.
C36_Witness ==
    /\ url_checks # <<>>
    /\ \E p \in Runners :
          kind[p] = "one" /\ pc[p] = "fetch" /\ cur[p].url \in deleted

\* ------------------------------------------- claims on the two triggers
\* The trigger that gates a call that is not forced.
TriggerOf(n) ==
    IF n.is_recovery THEN notification_settings[1].notify_on_recovery
    ELSE notification_settings[1].notify_on_error

C39_ProxiedUrlNeverFetchedDirectly ==
    \A p \in Runners :
        (pc[p] = "fetch" /\ cur[p].proxy_id # NULL) => cur[p].proxy # NULL

\* The loop of a tick or of check-all dispatches the check of the URL it has
\* reached.
LoopStartsCheck(p) ==
    kind[p] \in {"sched", "all"} /\ pc[p] = "loop" /\ pc'[p] = "fetch"

\* C40: scheduled_check and check_all_urls_now never start a check of a URL
\* that is inactive at that moment, also when update_url deactivated it after
\* they loaded their list.
C40_InactiveUrlNeverCheckedByLoops ==
    [][\A p \in Runners :
          LoopStartsCheck(p) => monitored_urls[urls[p][idx[p]]].is_active]_vars

\* ------------------------------------------- claims on the tick rounds
\* The checks this model follows have all been dispatched.
BudgetSpent == started >= MaxChecks

\* C37: with the timer firing and every fetch ending, each active URL that is
\* due gets its check and its cache is overwritten, whatever happens to the
\* checks of the other URLs (here: every active URL is due from the start,
\* and each is checked at least once as long as checks may still be
\* dispatched).
C37_EveryDueUrlIsChecked ==
    \A u \in Urls :
        monitored_urls[u].is_active => <>(updates[u] >= 1 \/ BudgetSpent)

====
